---- MODULE Spec2Model ----
(***************************************************************************)
(* State-machine model of the position-matching engine of the compliance   *)
(* tracker (src/compliance_tracker/database.py) and of the stores it       *)
(* reads: the engagements table, the feed_requests table and its child     *)
(* table feed_request_posts.                                               *)
(*                                                                         *)
(* Conventions.                                                            *)
(*  - A nullable column or an Optional value is a tuple: <<>> is           *)
(*    NULL/None, <<v>> is the value v.                                     *)
(*  - A timestamp string is a tuple of character codes, compared the way   *)
(*    SQLite compares TEXT (bytewise, a proper prefix first). The ISO      *)
(*    string "0001-01-01THH:00:00+0F:00" is <<48, HH, 43, F>>: 48 is the   *)
(*    leading "0" of the date, HH the zero-padded hour (which compares as  *)
(*    its number), 43 the "+" of the offset and F the offset's hours.      *)
(*    "" is <<>> and the unparseable string "n/a" is <<110>>.              *)
(*  - An aware datetime is [local |-> hour, off |-> utc offset]; one unit  *)
(*    of time is one hour of the wall clock and stands for the seconds of  *)
(*    total_seconds(). Hour 0 is datetime.min, the first instant a         *)
(*    datetime can hold: a conversion that would go below it raises        *)
(*    OverflowError.                                                       *)
(***************************************************************************)
EXTENDS Integers, Sequences, FiniteSets, TLC

VARIABLES
    engagements,        \* table engagements, rowid = index
    feed_requests,      \* table feed_requests: request_id -> <<>> or <<row>>
    feed_request_posts, \* table feed_request_posts: request_id -> rows
    committed,          \* engagements as of the connection's last commit
    pc,                 \* "idle" | "matching" | "match_raised" | "repair_raised"
    since,              \* match_post_positions: the since argument
    chunk_size,         \* match_post_positions: the chunk_size argument
    cursor,             \* match_post_positions: rows the cursor still holds
    feed_cache,         \* match_post_positions: did -> FeedCache
    post_cache,         \* match_post_positions: request_id -> post mapping
    stats,              \* match_post_positions: PositionMatchStats
    pre,                \* engagements when the running sweep was started
    settled,            \* a full sweep completed and no store changed since
    posts_table,        \* table posts: post_uri -> row
    call,               \* the operation called last and its arguments
    returned,           \* what that call returned, or that it raised
    subscriber_follow_counts    \* the rows of subscriber_follow_counts

vars == <<engagements, feed_requests, feed_request_posts, committed, pc, since,
          chunk_size, cursor, feed_cache, post_cache, stats, pre, settled,
          posts_table, call, returned, subscriber_follow_counts>>

-----------------------------------------------------------------------------
(* Bounds of the model.                                                    *)

MaxHour == 1
MaxEngagements == 2
MaxRequests == 2
MaxPosts == 1
MaxChunk == 2
MaxBatch == 1
MaxRows == 3

-----------------------------------------------------------------------------
(* Values.                                                                 *)

None == <<>>
Some(v) == <<v>>

\* The requesters, who are the externally supplied subscriber set
\* (engagements.py: actor_did in subscriber_dids), and one other actor.
Subscribers == {"u1", "u2"}
Actors == Subscribers \cup {"u3"}
PostUris == {"p1", "p2"}

IsoString(h, o) == <<48, h, 43, o>>
EmptyString == <<>>
JunkString == <<110>>
TimestampStrings ==
    {EmptyString, JunkString} \cup {IsoString(h, o) : h \in 0..MaxHour, o \in 0..1}

POSITION_STATUS_MATCHED == "matched"
POSITION_STATUS_NO_FEED == "no_feed_request"
POSITION_STATUS_EMPTY_FEED == "empty_feed_posts"
POSITION_STATUS_POST_MISSING == "post_not_in_feed"
POSITION_STATUS_INVALID_TS == "invalid_engagement_timestamp"
POSITION_STATUS_FEED_IN_FUTURE == "feed_after_engagement"
POSITION_STATUS_MISSING_URI == "missing_post_uri"
POSITION_STATUS_INVALID_FEED_TS == "invalid_feed_timestamp"

POSITION_STATUS_LABELS ==
    {POSITION_STATUS_MATCHED, POSITION_STATUS_NO_FEED, POSITION_STATUS_EMPTY_FEED,
     POSITION_STATUS_POST_MISSING, POSITION_STATUS_INVALID_TS,
     POSITION_STATUS_INVALID_FEED_TS, POSITION_STATUS_FEED_IN_FUTURE,
     POSITION_STATUS_MISSING_URI}

-----------------------------------------------------------------------------
(* Strings and datetimes (utils.py).                                       *)

\* SQLite's comparison of two TEXT values under the BINARY collation.
RECURSIVE TextLess(_, _)
TextLess(a, b) ==
    IF b = <<>> THEN FALSE
    ELSE IF a = <<>> THEN TRUE
    ELSE IF Head(a) # Head(b) THEN Head(a) < Head(b)
    ELSE TextLess(Tail(a), Tail(b))

TextLeq(a, b) == a = b \/ TextLess(a, b)

\* datetime.fromisoformat accepts the ISO strings ...
IsIso(raw) == Len(raw) = 4 /\ raw[1] = 48 /\ raw[3] = 43

\* One day in the model's time unit, the hour.
DayHours == 24

IsDigits(raw) == raw # <<>> /\ \A i \in DOMAIN raw : raw[i] \in 48..57

RECURSIVE DigitsValue(_)
DigitsValue(raw) ==
    IF raw = <<>> THEN 0
    ELSE 10 * DigitsValue(SubSeq(raw, 1, Len(raw) - 1)) + raw[Len(raw)] - 48

\* "000101dd", a day of January of year 1 in the basic format YYYYMMDD: the
\* digit-only strings drawn as inputs that are dates are of this month.
BasicDateString(day) ==
    <<48, 48, 48, 49, 48, 49, 48 + (day \div 10), 48 + (day % 10)>>

\* ... and, from Python 3.11 on, the basic format: a string of eight digits
\* that names a calendar day.
IsBasicDate(raw) ==
    /\ Len(raw) = 8
    /\ IsDigits(raw)
    /\ SubSeq(raw, 1, 6) = SubSeq(BasicDateString(1), 1, 6)
    /\ DigitsValue(SubSeq(raw, 7, 8)) \in 1..31

\* A string without an offset parses to a naive datetime; every caller
\* passes the result to ensure_utc, which reads a naive value as UTC, so the
\* model gives it the offset 0 here.
parse_datetime(raw) ==
    IF raw = EmptyString THEN None
    ELSE IF IsIso(raw) THEN Some([local |-> raw[2], off |-> raw[4]])
    ELSE IF IsBasicDate(raw)
         THEN Some([local |-> (DigitsValue(SubSeq(raw, 7, 8)) - 1) * DayHours, off |-> 0])
    ELSE None

\* value.astimezone(dt.timezone.utc) raises OverflowError when the UTC wall
\* clock of value is before datetime.min.
ensure_utc_raises(value) == value.local - value.off < 0

ensure_utc(value) == [local |-> value.local - value.off, off |-> 0]

isoformat(value) == IsoString(value.local, value.off)

\* datetime.timestamp() of an aware datetime: the instant.
timestamp_of(value) == value.local - value.off

\* The outcome of a call: the exception it raised, or the value it returned.
Raises(exception) == [raises |-> exception, value |-> None]
Returns(value) == [raises |-> "", value |-> Some(value)]

\* reference - dt.timedelta(days=days) on a UTC datetime: OverflowError when
\* the result is before datetime.min.
minus_days(reference, days) ==
    IF reference.local - days * DayHours < 0
    THEN Raises("OverflowError")
    ELSE Returns([local |-> reference.local - days * DayHours, off |-> 0])

\* str.strip() of the blanks at both ends.
RECURSIVE strip(_)
strip(raw) ==
    IF raw = <<>> THEN raw
    ELSE IF Head(raw) = 32 THEN strip(Tail(raw))
    ELSE IF raw[Len(raw)] = 32 THEN strip(SubSeq(raw, 1, Len(raw) - 1))
    ELSE raw

\* float(stripped) of the strings drawn: digits with an optional minus sign;
\* None stands for the ValueError of any other string.
float_of(raw) ==
    IF IsDigits(raw) THEN Some(DigitsValue(raw))
    ELSE IF raw # <<>> /\ Head(raw) = 45 /\ IsDigits(Tail(raw))
         THEN Some(0 - DigitsValue(Tail(raw)))
    ELSE None

\* The values a caller passes as a window start.
\* (One record shape for all of them: the field its type names is the one
\* that counts.)
WindowValue(type, datetime, number, text) ==
    [type |-> type, datetime |-> datetime, number |-> number, text |-> text]
DatetimeValue(value) == WindowValue("datetime", value, 0, <<>>)
DateValue(day) == WindowValue("date", [local |-> 0, off |-> 0], day, <<>>)
TimedeltaValue(days) == WindowValue("timedelta", [local |-> 0, off |-> 0], days, <<>>)
NumberValue(n) == WindowValue("number", [local |-> 0, off |-> 0], n, <<>>)
StringValue(raw) == WindowValue("str", [local |-> 0, off |-> 0], 0, raw)
OtherValue == WindowValue("other", [local |-> 0, off |-> 0], 0, <<>>)

\* A normalize_since that takes the size of a numeric window and never
\* looks at its sign.
normalize_since_unsigned(value, now) ==
    IF ensure_utc_raises(now) THEN Raises("OverflowError")
    ELSE
    LET reference == ensure_utc(now)
        size(n) == IF n < 0 THEN 0 - n ELSE n
    IN  CASE value.type = "datetime" ->
                 IF ensure_utc_raises(value.datetime) THEN Raises("OverflowError")
                 ELSE Returns(ensure_utc(value.datetime))
          [] value.type = "date" ->
                 Returns([local |-> value.number * DayHours, off |-> 0])
          [] value.type \in {"timedelta", "number"} ->
                 minus_days(reference, size(value.number))
          [] value.type = "str" ->
                 LET stripped == strip(value.text)
                     parsed == parse_datetime(stripped)
                     numeric == float_of(stripped)
                 IN  IF stripped = <<>> THEN Raises("ValueError")
                     ELSE IF parsed # None
                          THEN IF ensure_utc_raises(parsed[1]) THEN Raises("OverflowError")
                               ELSE Returns(ensure_utc(parsed[1]))
                     ELSE IF numeric = None THEN Raises("ValueError")
                     ELSE minus_days(reference, size(numeric[1]))
          [] OTHER -> Raises("ValueError")

\* normalize_since(value, now=now), with now given.
normalize_since(value, now) ==
    IF ensure_utc_raises(now) THEN Raises("OverflowError")
    ELSE
    LET reference == ensure_utc(now)
    IN  CASE value.type = "datetime" ->
                 IF ensure_utc_raises(value.datetime) THEN Raises("OverflowError")
                 ELSE Returns(ensure_utc(value.datetime))
          [] value.type = "date" ->
                 Returns([local |-> value.number * DayHours, off |-> 0])
          [] value.type = "timedelta" ->
                 IF value.number < 0 THEN Raises("ValueError")
                 ELSE minus_days(reference, value.number)
          [] value.type = "number" ->
                 IF value.number < 0 THEN Raises("ValueError")
                 ELSE minus_days(reference, value.number)
          [] value.type = "str" ->
                 LET stripped == strip(value.text)
                     parsed == parse_datetime(stripped)
                     numeric == float_of(stripped)
                 IN  IF stripped = <<>> THEN Raises("ValueError")
                     ELSE IF parsed # None
                          THEN IF ensure_utc_raises(parsed[1]) THEN Raises("OverflowError")
                               ELSE Returns(ensure_utc(parsed[1]))
                     ELSE IF numeric = None THEN Raises("ValueError")
                     ELSE IF numeric[1] < 0 THEN Raises("ValueError")
                     ELSE minus_days(reference, numeric[1])
          [] OTHER -> Raises("ValueError")

-----------------------------------------------------------------------------
(* Rows.                                                                   *)

RequestIds == 1..MaxRequests

\* A row of engagements as store_engagements inserts it: the attribution
\* columns are NULL.
EngagementRow(rec) ==
    [timestamp |-> rec.timestamp,
     did_engagement |-> rec.did_engagement,
     post_uri |-> rec.post_uri,
     post_author_handle |-> rec.post_author_handle,
     engagement_type |-> rec.engagement_type,
     is_subscriber |-> rec.is_subscriber,
     engagement_text |-> rec.engagement_text,
     post_position |-> None,
     position_feed_request_id |-> None,
     position_age_seconds |-> None,
     position_status |-> None]

\* UNIQUE (timestamp, did_engagement, post_uri, engagement_type)
EngagementKey(r) == <<r.timestamp, r.did_engagement, r.post_uri, r.engagement_type>>

\* The attribution result block of an engagement row.
Attribution(r) ==
    [post_position |-> r.post_position,
     position_feed_request_id |-> r.position_feed_request_id,
     position_age_seconds |-> r.position_age_seconds,
     position_status |-> r.position_status]

\* Python truthiness of a value read from a nullable TEXT column.
Truthy(opt) == opt # None /\ opt[1] # ""

-----------------------------------------------------------------------------
(* PositionMatchStats (database.py).                                       *)

NewStats ==
    [processed |-> 0, matched |-> 0, age_seconds_sum |-> 0, age_samples |-> 0,
     status_counts |-> [c \in POSITION_STATUS_LABELS |-> 0]]

\* A record() that counts every row as matched.
record_as_matched(st, status, age_seconds) ==
    LET counted == [st EXCEPT !.processed = @ + 1,
                              !.status_counts[status] = @ + 1,
                              !.matched = @ + 1]
    IN  IF age_seconds # None
        THEN [counted EXCEPT !.age_seconds_sum = @ + age_seconds[1],
                             !.age_samples = @ + 1]
        ELSE counted

\* PositionMatchStats.record(status, age_seconds=age_seconds)
record(st, status, age_seconds) ==
    LET counted == [st EXCEPT !.processed = @ + 1,
                              !.status_counts[status] = @ + 1]
    IN  IF status = POSITION_STATUS_MATCHED /\ age_seconds # None
        THEN [counted EXCEPT !.matched = @ + 1,
                             !.age_seconds_sum = @ + age_seconds[1],
                             !.age_samples = @ + 1]
        ELSE counted

\* to_dict()["avg_age_seconds"]: the quotient age_seconds_sum / age_samples,
\* kept as numerator and denominator; the key is absent without samples.
avg_age_seconds(st) ==
    IF st.age_samples # 0
    THEN Some([sum |-> st.age_seconds_sum, samples |-> st.age_samples])
    ELSE None

-----------------------------------------------------------------------------
(* The caches of a sweep (database.py).                                    *)

\* The query of _load_feed_cache without WHERE fr.requester_did = ?.
RequestsOfAnyRequester(requests, did) ==
    {id \in RequestIds : requests[id] # None}

\* The rows of feed_requests of one requester.
RequestsOf(requests, did) ==
    {id \in RequestIds : requests[id] # None /\ requests[id][1].requester_did = did}

\* ORDER BY fr.timestamp ASC: the TEXT column is compared as text; rows with
\* equal text come in request_id order (the GROUP BY's leading key).
FirstByTimestamp(requests, ids) ==
    CHOOSE id \in ids :
        \A other \in ids \ {id} :
            \/ TextLess(requests[id][1].timestamp, requests[other][1].timestamp)
            \/ /\ requests[id][1].timestamp = requests[other][1].timestamp
               /\ id < other

RECURSIVE OrderByTimestamp(_, _)
OrderByTimestamp(requests, ids) ==
    IF ids = {} THEN <<>>
    ELSE LET first == FirstByTimestamp(requests, ids)
         IN  <<first>> \o OrderByTimestamp(requests, ids \ {first})

\* A cache entry that says has_posts of every snapshot.
FeedCacheEntryWithPosts(requests, posts, id) ==
    LET feed_dt == parse_datetime(requests[id][1].timestamp)
    IN  [request_id |-> id,
         timestamp |-> IF feed_dt # None THEN Some(ensure_utc(feed_dt[1])) ELSE None,
         has_posts |-> TRUE]

FeedCacheEntry(requests, posts, id) ==
    LET feed_dt == parse_datetime(requests[id][1].timestamp)
    IN  [request_id |-> id,
         timestamp |-> IF feed_dt # None THEN Some(ensure_utc(feed_dt[1])) ELSE None,
         has_posts |-> Len(posts[id]) > 0]

\* One value of FeedCache.timestamps: <<>> is float("-inf").
FeedCacheTimestamp(entry) ==
    IF entry.timestamp # None THEN Some(timestamp_of(entry.timestamp[1])) ELSE None

\* ensure_utc(feed_dt) raises for one of the requester's rows.
_load_feed_cache_raises(requests, did) ==
    \E id \in RequestsOf(requests, did) :
        /\ parse_datetime(requests[id][1].timestamp) # None
        /\ ensure_utc_raises(parse_datetime(requests[id][1].timestamp)[1])

_load_feed_cache(requests, posts, did) ==
    LET rows == OrderByTimestamp(requests, RequestsOf(requests, did))
        entries == [i \in 1..Len(rows) |-> FeedCacheEntry(requests, posts, rows[i])]
    IN  [entries |-> entries,
         timestamps |-> [i \in 1..Len(rows) |-> FeedCacheTimestamp(entries[i])]]

\* x < a[mid] on floats, a[mid] possibly -inf.
FloatLess(x, y) == y # None /\ x < y[1]

\* A search that always answers with the end of the array.
bisect_end(a, x) == Len(a)

\* bisect.bisect_right(a, x), indices from 0 as in Python.
RECURSIVE BisectLoop(_, _, _, _)
BisectLoop(a, x, lo, hi) ==
    IF lo < hi
    THEN LET mid == (lo + hi) \div 2
         IN  IF FloatLess(x, a[mid + 1])
             THEN BisectLoop(a, x, lo, mid)
             ELSE BisectLoop(a, x, mid + 1, hi)
    ELSE lo

bisect_right(a, x) == BisectLoop(a, x, 0, Len(a))

\* The loop of _load_post_mapping without "post_index is not None", a NULL
\* rank read as 0.
RECURSIVE PostMappingOfAnyRank(_, _)
PostMappingOfAnyRank(rows, mapping) ==
    IF rows = <<>> THEN mapping
    ELSE LET row == Head(rows)
         IN  IF Truthy(row.post_uri)
             THEN PostMappingOfAnyRank(Tail(rows),
                      [u \in DOMAIN mapping \cup {row.post_uri[1]} |->
                          IF u = row.post_uri[1]
                          THEN (IF row.post_index # None THEN row.post_index[1] ELSE 0)
                          ELSE mapping[u]])
             ELSE PostMappingOfAnyRank(Tail(rows), mapping)

\* mapping[post_uri] = int(post_index) for the rows that have both.
RECURSIVE PostMappingOf(_, _)
PostMappingOf(rows, mapping) ==
    IF rows = <<>> THEN mapping
    ELSE LET row == Head(rows)
         IN  IF Truthy(row.post_uri) /\ row.post_index # None
             THEN PostMappingOf(Tail(rows),
                      [u \in DOMAIN mapping \cup {row.post_uri[1]} |->
                          IF u = row.post_uri[1] THEN row.post_index[1] ELSE mapping[u]])
             ELSE PostMappingOf(Tail(rows), mapping)

\* _load_post_mapping ranking a post by its place in the stored list.
_load_post_mapping_by_order(posts, request_id) ==
    LET rows == posts[request_id]
        listed == {i \in DOMAIN rows : Truthy(rows[i].post_uri) /\ rows[i].post_index # None}
    IN  [u \in {rows[i].post_uri[1] : i \in listed} |->
            CHOOSE i \in listed : rows[i].post_uri[1] = u]

_load_post_mapping(posts, request_id) == PostMappingOf(posts[request_id], <<>>)

-----------------------------------------------------------------------------
(* match_post_positions (database.py): one row of a batch.                 *)

_update_position(eng, rowid, status, request_id, post_position, age_seconds) ==
    [eng EXCEPT ![rowid] =
        [@ EXCEPT !.post_position = post_position,
                  !.position_feed_request_id = request_id,
                  !.position_age_seconds = age_seconds,
                  !.position_status = Some(status)]]

\* The state a sweep carries from row to row; raised: an exception is
\* propagating out of match_post_positions.
SweepState(eng, fc, pcache, st) ==
    [engagements |-> eng, feed_cache |-> fc, post_cache |-> pcache, stats |-> st,
     raised |-> FALSE]

Raise(s) == [s EXCEPT !.raised = TRUE]

\* Flag passing request_id=None whatever snapshot was selected.
FlagWithoutRequest(s, fc, pcache, rowid, status, request_id) ==
    [engagements |-> _update_position(s.engagements, rowid, status, None, None, None),
     feed_cache |-> fc, post_cache |-> pcache,
     stats |-> record(s.stats, status, None), raised |-> FALSE]

\* _update_position(...) then stats.record(status) for a status other than matched.
Flag(s, fc, pcache, rowid, status, request_id) ==
    SweepState(_update_position(s.engagements, rowid, status, request_id, None, None),
               fc, pcache, record(s.stats, status, None))

\* A feed cache that answers a miss with an entry loaded for another did.
FeedCacheWithAnyEntry(fc, did) ==
    IF did \in DOMAIN fc THEN fc
    ELSE [d \in DOMAIN fc \cup {did} |->
            IF d # did THEN fc[d]
            ELSE IF DOMAIN fc # {} THEN fc[CHOOSE k \in DOMAIN fc : TRUE]
            ELSE _load_feed_cache(feed_requests, feed_request_posts, did)]

\* feed_cache.get(did), loaded on a miss.
FeedCacheWith(fc, did) ==
    IF did \in DOMAIN fc THEN fc
    ELSE [d \in DOMAIN fc \cup {did} |->
            IF d = did THEN _load_feed_cache(feed_requests, feed_request_posts, did)
            ELSE fc[d]]

\* A post cache that answers a miss with a mapping that lists nothing, as a
\* mapping loaded before the snapshot was stored again would.
PostCacheStale(pcache, request_id) ==
    IF request_id \in DOMAIN pcache THEN pcache
    ELSE [r \in DOMAIN pcache \cup {request_id} |->
            IF r = request_id THEN [u \in {} |-> 0] ELSE pcache[r]]

\* post_cache.get(request_id), loaded on a miss.
PostCacheWith(pcache, request_id) ==
    IF request_id \in DOMAIN pcache THEN pcache
    ELSE [r \in DOMAIN pcache \cup {request_id} |->
            IF r = request_id THEN _load_post_mapping(feed_request_posts, request_id)
            ELSE pcache[r]]

\* The body of "for rowid, ts_raw, did_engagement, post_uri in batch".
MatchRow(s, row) ==
    IF row.timestamp = EmptyString
    THEN Flag(s, s.feed_cache, s.post_cache, row.rowid, POSITION_STATUS_INVALID_TS, None)
    ELSE IF parse_datetime(row.timestamp) = None
    THEN Flag(s, s.feed_cache, s.post_cache, row.rowid, POSITION_STATUS_INVALID_TS, None)
    ELSE IF ensure_utc_raises(parse_datetime(row.timestamp)[1])
    THEN Raise(s)
    ELSE IF row.post_uri = ""
    THEN Flag(s, s.feed_cache, s.post_cache, row.rowid, POSITION_STATUS_MISSING_URI, None)
    ELSE IF /\ row.did_engagement \notin DOMAIN s.feed_cache
            /\ _load_feed_cache_raises(feed_requests, row.did_engagement)
    THEN Raise(s)
    ELSE
    LET engagement_dt == ensure_utc(parse_datetime(row.timestamp)[1])
        fc == FeedCacheWith(s.feed_cache, row.did_engagement)
        cache == fc[row.did_engagement]
        ts_value == timestamp_of(engagement_dt)
        idx == bisect_right(cache.timestamps, ts_value) - 1
        request == cache.entries[idx + 1]
        age_seconds == timestamp_of(engagement_dt) - timestamp_of(request.timestamp[1])
        pcache == PostCacheWith(s.post_cache, request.request_id)
        post_mapping == pcache[request.request_id]
    IN  IF cache.timestamps = <<>>
        THEN Flag(s, fc, s.post_cache, row.rowid, POSITION_STATUS_NO_FEED, None)
        ELSE IF idx < 0
        THEN Flag(s, fc, s.post_cache, row.rowid, POSITION_STATUS_NO_FEED, None)
        ELSE IF request.timestamp = None
        THEN Flag(s, fc, s.post_cache, row.rowid, POSITION_STATUS_INVALID_FEED_TS,
                  Some(request.request_id))
        ELSE IF timestamp_of(request.timestamp[1]) > timestamp_of(engagement_dt)
        THEN Flag(s, fc, s.post_cache, row.rowid, POSITION_STATUS_FEED_IN_FUTURE,
                  Some(request.request_id))
        ELSE IF ~request.has_posts
        THEN Flag(s, fc, s.post_cache, row.rowid, POSITION_STATUS_EMPTY_FEED,
                  Some(request.request_id))
        ELSE IF row.post_uri \notin DOMAIN post_mapping
        THEN Flag(s, fc, pcache, row.rowid, POSITION_STATUS_POST_MISSING,
                  Some(request.request_id))
        ELSE SweepState(
                 _update_position(s.engagements, row.rowid, POSITION_STATUS_MATCHED,
                                  Some(request.request_id),
                                  Some(post_mapping[row.post_uri]), Some(age_seconds)),
                 fc, pcache,
                 record(s.stats, POSITION_STATUS_MATCHED, Some(age_seconds)))

\* The for loop over one batch, left at the first row that raises.
RECURSIVE MatchBatch(_, _)
MatchBatch(s, batch) ==
    IF batch = <<>> \/ s.raised THEN s
    ELSE MatchBatch(MatchRow(s, Head(batch)), Tail(batch))

-----------------------------------------------------------------------------
(* match_post_positions: the query.                                        *)

\* The query without its condition on position_status.
SelectedWhateverStatus(eng, since_arg) ==
    {rowid \in 1..Len(eng) :
        /\ eng[rowid].is_subscriber
        /\ \/ since_arg = None
           \/ TextLeq(isoformat(ensure_utc(since_arg[1])), eng[rowid].timestamp)}

\* WHERE is_subscriber = 1 AND (position_status IS NULL OR position_status != 'matched')
\*   [AND timestamp >= ?]   -- the parameter is ensure_utc(since).isoformat()
Selected(eng, since_arg) ==
    {rowid \in 1..Len(eng) :
        /\ eng[rowid].is_subscriber
        /\ eng[rowid].position_status # Some(POSITION_STATUS_MATCHED)
        /\ \/ since_arg = None
           \/ TextLeq(isoformat(ensure_utc(since_arg[1])), eng[rowid].timestamp)}

\* ORDER BY timestamp ASC: text order, rows with equal text in rowid order.
FirstRow(eng, rowids) ==
    CHOOSE rowid \in rowids :
        \A other \in rowids \ {rowid} :
            \/ TextLess(eng[rowid].timestamp, eng[other].timestamp)
            \/ eng[rowid].timestamp = eng[other].timestamp /\ rowid < other

RECURSIVE OrderRows(_, _)
OrderRows(eng, rowids) ==
    IF rowids = {} THEN <<>>
    ELSE LET first == FirstRow(eng, rowids)
         IN  <<[rowid |-> first,
                timestamp |-> eng[first].timestamp,
                did_engagement |-> eng[first].did_engagement,
                post_uri |-> eng[first].post_uri]>>
             \o OrderRows(eng, rowids \ {first})

\* conn.execute(query, params): the rows the cursor will yield.
SelectRows(eng, since_arg) == OrderRows(eng, Selected(eng, since_arg))

\* A fetch that hands over one row fewer than a full chunk.
fetchmany_short(cur, n) == SubSeq(cur, 1, IF Len(cur) < n THEN Len(cur) ELSE n - 1)

\* cursor.fetchmany(chunk_size)
fetchmany(cur, n) == SubSeq(cur, 1, IF Len(cur) < n THEN Len(cur) ELSE n)

AfterFetch(cur, n) == SubSeq(cur, (IF Len(cur) < n THEN Len(cur) ELSE n) + 1, Len(cur))

-----------------------------------------------------------------------------
(* Snapshot store (database.py).                                           *)

\* A payload "position": [type |-> "none"] when the key is absent or null,
\* a bool, an int, a float num + frac/10, the string of such a number
\* ("str"), or any other value ("other").
PosAbsent == [type |-> "none", num |-> 0, frac |-> 0]
PosInt(n) == [type |-> "int", num |-> n, frac |-> 0]

\* A coercion that drops the fraction of a number instead of refusing it.
_coerce_payload_position_truncating(value) ==
    CASE value.type = "none" -> None
      [] value.type = "bool" -> Some(value.num)
      [] value.type = "int" -> Some(value.num)
      [] value.type = "float" -> Some(value.num)
      [] value.type = "str" -> Some(value.num)
      [] OTHER -> None

_coerce_payload_position(value) ==
    CASE value.type = "none" -> None
      [] value.type = "bool" -> Some(value.num)
      [] value.type = "int" -> Some(value.num)
      [] value.type = "float" -> IF value.frac = 0 THEN Some(value.num) ELSE None
      [] value.type = "str" -> IF value.frac = 0 THEN Some(value.num) ELSE None
      [] OTHER -> None

\* One entry of a payload's "posts": a dict with the keys uri, postUri, cid,
\* record and position (an absent key reads as None), or no dict at all.
\* record is None when it is no mapping, else Some(its "cid").
PostPayload(uri, position) ==
    [is_dict |-> TRUE, uri |-> uri, postUri |-> None, cid |-> None,
     record |-> None, position |-> position]

\* "if not isinstance(post, dict): post = {}"
EmptyPost == PostPayload(None, PosAbsent)

AsDict(post) == IF post.is_dict THEN post ELSE EmptyPost

\* The post_json column: json.dumps(post) gives an object that json.loads
\* reads back as the same dict. Rows written by other code may hold no text
\* ("empty"), text that is no JSON ("invalid") or JSON that is no object
\* ("nonobject").
PostJson(post) == [kind |-> "object", value |-> post]

\* A plain INSERT INTO feed_request_posts on a table without the constraint.
InsertPost(rows, new) == rows \o <<new>>

\* INSERT OR REPLACE INTO feed_request_posts under UNIQUE (request_id, post_uri):
\* a row with the same non-NULL post_uri is replaced; NULLs never conflict.
InsertOrReplacePost(rows, new) ==
    SelectSeq(rows, LAMBDA r : r.post_uri = None \/ r.post_uri # new.post_uri) \o <<new>>

\* post.get("uri") or post.get("postUri")
PostUriOf(post) == IF Truthy(post.uri) THEN post.uri ELSE post.postUri

\* A row of the posts table without its key post_uri.
PostsRow(cid, status) ==
    [cid |-> cid, author_did |-> None, author_handle |-> None, indexed_at |-> None,
     created_at |-> None, last_hydrated_at |-> None, hydration_status |-> status,
     hydration_error |-> None]

\* The cid _upsert_post_placeholder binds: post.get("cid"), else the cid of
\* a mapping "record".
PlaceholderCid(post) ==
    IF Truthy(post.cid) THEN post.cid
    ELSE IF post.record # None THEN post.record[1]
    ELSE post.cid

\* An upsert that writes the placeholder over the row a post_uri has.
_upsert_post_overwriting(directory, post) ==
    LET post_uri == IF Truthy(post.uri) THEN post.uri ELSE post.postUri
    IN  IF ~Truthy(post_uri) THEN directory
        ELSE [u \in DOMAIN directory \cup {post_uri[1]} |->
                 IF u = post_uri[1]
                 THEN PostsRow(PlaceholderCid(post), Some("pending"))
                 ELSE directory[u]]

\* _upsert_post_placeholder(conn, post); directory is the posts table, a
\* function from the post_uri values present to their rows.
_upsert_post_placeholder(directory, post) ==
    LET post_uri == IF Truthy(post.uri) THEN post.uri ELSE post.postUri
    IN  IF ~Truthy(post_uri) THEN directory
        ELSE IF post_uri[1] \in DOMAIN directory
        THEN [directory EXCEPT ![post_uri[1]] =
                 [@ EXCEPT !.cid = IF @ # None THEN @ ELSE PlaceholderCid(post),
                           !.hydration_status =
                               IF @ = None THEN Some("pending") ELSE @]]
        ELSE [u \in DOMAIN directory \cup {post_uri[1]} |->
                 IF u = post_uri[1]
                 THEN PostsRow(PlaceholderCid(post), Some("pending"))
                 ELSE directory[u]]

\* "for post in posts:" of store_feed_retrievals for one request: the child
\* rows written so far and the posts table.
RECURSIVE InsertPosts(_, _)
InsertPosts(acc, posts) ==
    IF posts = <<>> THEN acc
    ELSE LET post == AsDict(Head(posts))
             position_value == _coerce_payload_position(post.position)
         IN  InsertPosts(
                 [rows |-> InsertOrReplacePost(acc.rows,
                               [post_uri |-> PostUriOf(post),
                                post_index |-> position_value,
                                post_json |-> PostJson(post)]),
                  directory |-> _upsert_post_placeholder(acc.directory, post)],
                 Tail(posts))

\* A variant of the loop of store_feed_retrievals that keeps the child rows
\* a snapshot had and adds the new ones to them.
RECURSIVE StoreRetrievalsMerging(_, _)
StoreRetrievalsMerging(db, retrievals) ==
    IF retrievals = <<>> \/ db.raised THEN db
    ELSE LET retrieval == Head(retrievals)
         IN  IF retrieval.id = None
             THEN StoreRetrievalsMerging(db, Tail(retrievals))
             ELSE IF retrieval.timestamp = None
             THEN [db EXCEPT !.raised = TRUE]
             ELSE LET written == InsertPosts([rows |-> db.posts[retrieval.id[1]],
                                              directory |-> db.directory],
                                             retrieval.posts)
                  IN  StoreRetrievalsMerging(
                          [requests |->
                              [db.requests EXCEPT ![retrieval.id[1]] =
                                  Some([requester_did |-> retrieval.requester_did,
                                        timestamp |-> retrieval.timestamp[1]])],
                           posts |-> [db.posts EXCEPT ![retrieval.id[1]] = written.rows],
                           directory |-> written.directory,
                           inserted |-> db.inserted + 1,
                           raised |-> FALSE],
                          Tail(retrievals))

\* "for retrieval in retrievals:" of store_feed_retrievals. db is
\* [requests |-> feed_requests, posts |-> feed_request_posts,
\*  directory |-> posts, inserted |-> the counter, raised |-> an exception
\* left the loop]. A retrieval whose "timestamp" is absent or null binds
\* NULL to feed_requests.timestamp, which is NOT NULL: sqlite3.IntegrityError.
RECURSIVE StoreRetrievals(_, _)
StoreRetrievals(db, retrievals) ==
    IF retrievals = <<>> \/ db.raised THEN db
    ELSE LET retrieval == Head(retrievals)
         IN  IF retrieval.id = None
             THEN StoreRetrievals(db, Tail(retrievals))
             ELSE IF retrieval.timestamp = None
             THEN [db EXCEPT !.raised = TRUE]
             ELSE LET written == InsertPosts([rows |-> <<>>, directory |-> db.directory],
                                             retrieval.posts)
                  IN  StoreRetrievals(
                          [requests |->
                              [db.requests EXCEPT ![retrieval.id[1]] =
                                  Some([requester_did |-> retrieval.requester_did,
                                        timestamp |-> retrieval.timestamp[1]])],
                           posts |-> [db.posts EXCEPT ![retrieval.id[1]] = written.rows],
                           directory |-> written.directory,
                           inserted |-> db.inserted + 1,
                           raised |-> FALSE],
                          Tail(retrievals))

\* The tables as a call of store_feed_retrievals finds them.
Tables(requests, request_posts, directory) ==
    [requests |-> requests, posts |-> request_posts, directory |-> directory,
     inserted |-> 0, raised |-> FALSE]

\* store_feed_retrievals(conn, retrievals): conn.commit() is its last
\* statement, so a call that raises has committed nothing and its writes are
\* rolled back when the connection is closed.
store_feed_retrievals_call(db, retrievals) ==
    LET out == StoreRetrievals([db EXCEPT !.inserted = 0], retrievals)
    IN  IF out.raised THEN [db EXCEPT !.inserted = 0, !.raised = TRUE] ELSE out

\* A loop body without the test "existing_index == coerced".
RebuildOutcomeNoSkip(row) ==
    IF row.post_json.kind = "empty" THEN "missing_position"
    ELSE IF row.post_json.kind = "invalid" THEN "parse_errors"
    ELSE IF row.post_json.kind = "nonobject" THEN "parse_errors"
    ELSE IF _coerce_payload_position(row.post_json.value.position) = None
    THEN IF row.post_json.value.position.type = "none"
         THEN "missing_position" ELSE "invalid_position"
    ELSE "updated"

\* rebuild_post_indices_from_payload: what the loop body does with one row:
\* it counts it under missing_position, parse_errors or invalid_position,
\* leaves it alone ("unchanged"), or appends it to updates ("updated").
RebuildOutcome(row) ==
    IF row.post_json.kind = "empty" THEN "missing_position"
    ELSE IF row.post_json.kind = "invalid" THEN "parse_errors"
    ELSE IF row.post_json.kind = "nonobject" THEN "parse_errors"
    ELSE IF _coerce_payload_position(row.post_json.value.position) = None
    THEN IF row.post_json.value.position.type = "none"
         THEN "missing_position" ELSE "invalid_position"
    ELSE IF row.post_index = _coerce_payload_position(row.post_json.value.position)
    THEN "unchanged"
    ELSE "updated"

\* An UPDATE that sets every row to what its payload gives, NULL included.
RebuildRowAlways(row) ==
    IF row.post_json.kind = "object"
    THEN [row EXCEPT !.post_index = _coerce_payload_position(row.post_json.value.position)]
    ELSE [row EXCEPT !.post_index = None]

\* rebuild_post_indices_from_payload: one row after the UPDATE.
RebuildRow(row) ==
    IF RebuildOutcome(row) = "updated"
    THEN [row EXCEPT !.post_index = _coerce_payload_position(row.post_json.value.position)]
    ELSE row

\* The rows of every request whose loop body ends in the given way.
RebuildCount(request_posts, outcome) ==
    LET RECURSIVE Sum(_)
        Sum(ids) ==
            IF ids = {} THEN 0
            ELSE LET id == CHOOSE x \in ids : TRUE
                 IN  Cardinality({i \in 1..Len(request_posts[id]) :
                                     RebuildOutcome(request_posts[id][i]) = outcome})
                         + Sum(ids \ {id})
    IN  Sum(DOMAIN request_posts)

\* rebuild_post_indices_from_payload(conn): the table afterwards and the
\* PostIndexRebuildStats returned.
rebuild_post_indices_from_payload_call(request_posts) ==
    [posts |-> [id \in DOMAIN request_posts |->
                   [i \in 1..Len(request_posts[id]) |-> RebuildRow(request_posts[id][i])]],
     stats |-> [scanned |-> RebuildCount(request_posts, "missing_position")
                              + RebuildCount(request_posts, "parse_errors")
                              + RebuildCount(request_posts, "invalid_position")
                              + RebuildCount(request_posts, "unchanged")
                              + RebuildCount(request_posts, "updated"),
                updated |-> RebuildCount(request_posts, "updated"),
                missing_position |-> RebuildCount(request_posts, "missing_position"),
                invalid_position |-> RebuildCount(request_posts, "invalid_position"),
                parse_errors |-> RebuildCount(request_posts, "parse_errors")]]

-----------------------------------------------------------------------------
(* Inputs.                                                                 *)

\* The inputs vary one attribute at a time around a base record: every
\* timestamp string with the base requester and payload, every payload and
\* the other requester with the base timestamp, which is the latest hour.
BaseTimestamp == IsoString(MaxHour, 0)
BasePosts == <<PostPayload(Some("p1"), PosInt(7))>>

\* EngagementRecord values as engagements.py builds them
\* (is_subscriber=actor_did in subscriber_dids).
EngagementShapes ==
    {<<ts, "u1", "p1">> : ts \in TimestampStrings}
        \cup {<<BaseTimestamp, "u1", "">>, <<JunkString, "u1", "">>}
        \cup {<<BaseTimestamp, did, "p1">> : did \in Actors}

EngagementInputs ==
    {[timestamp |-> e[1], did_engagement |-> e[2], post_uri |-> e[3],
      post_author_handle |-> "", engagement_type |-> "like",
      is_subscriber |-> e[2] \in Subscribers, engagement_text |-> None] :
        e \in EngagementShapes}

PostInputs ==
    {PostPayload(uri, pos) : uri \in {Some("p1"), None}, pos \in {PosAbsent, PosInt(7)}}

RECURSIVE SeqsUpTo(_, _)
SeqsUpTo(S, n) ==
    IF n = 0 THEN {<<>>}
    ELSE LET shorter == SeqsUpTo(S, n - 1)
         IN  shorter \cup {Append(q, x) : q \in {t \in shorter : Len(t) = n - 1}, x \in S}

RetrievalShapes ==
    {<<"u1", ts, BasePosts>> : ts \in TimestampStrings}
        \cup {<<"u1", BaseTimestamp, posts>> : posts \in SeqsUpTo(PostInputs, MaxPosts)}
        \cup {<<"u2", BaseTimestamp, BasePosts>>}

RetrievalInputs ==
    {[id |-> Some(id), requester_did |-> r[1], timestamp |-> Some(r[2]), posts |-> r[3]] :
        id \in RequestIds, r \in RetrievalShapes}

\* The since argument: absent, or a UTC instant.
SinceArgs == {None} \cup {Some([local |-> h, off |-> 0]) : h \in 1..MaxHour}

-----------------------------------------------------------------------------
(* The state machine.                                                      *)

Init ==
    /\ engagements = <<>>
    /\ feed_requests = [id \in RequestIds |-> None]
    /\ feed_request_posts = [id \in RequestIds |-> <<>>]
    /\ committed = <<>>
    /\ pc = "idle"
    /\ since = None
    /\ chunk_size = 0
    /\ cursor = <<>>
    /\ feed_cache = <<>>
    /\ post_cache = <<>>
    /\ stats = NewStats
    /\ pre = <<>>
    /\ settled = FALSE
    /\ posts_table = [u \in {} |-> PostsRow(None, None)]
    /\ call = None
    /\ returned = None
    /\ subscriber_follow_counts = <<>>

\* The rows of engagements and of feed_requests together.
StoredRows(eng, requests) ==
    Len(eng) + Cardinality({id \in RequestIds : requests[id] # None})

\* No sweep is running: the locals of the last one are gone.
NoLocals ==
    /\ since' = None
    /\ chunk_size' = 0
    /\ cursor' = <<>>
    /\ feed_cache' = <<>>
    /\ post_cache' = <<>>
    /\ stats' = NewStats
    /\ pre' = <<>>

NoSweep == pc' = "idle" /\ NoLocals

\* INSERT OR REPLACE INTO engagements, row by row: the stored row with the
\* key of the new one is deleted and the new row is added.
RECURSIVE InsertOrReplace(_, _)
InsertOrReplace(eng, rows) ==
    IF rows = <<>> THEN eng
    ELSE InsertOrReplace(
             Append(SelectSeq(eng, LAMBDA r : EngagementKey(r) # EngagementKey(Head(rows))),
                    EngagementRow(Head(rows))),
             Tail(rows))

\* INSERT OR IGNORE INTO engagements, row by row.
RECURSIVE InsertOrIgnore(_, _)
InsertOrIgnore(eng, rows) ==
    IF rows = <<>> THEN eng
    ELSE IF \E i \in 1..Len(eng) : EngagementKey(eng[i]) = EngagementKey(Head(rows))
         THEN InsertOrIgnore(eng, Tail(rows))
         ELSE InsertOrIgnore(Append(eng, EngagementRow(Head(rows))), Tail(rows))

\* store_engagements(conn, rows): the table afterwards and the value
\* returned, conn.total_changes - before_changes.
store_engagements_call(eng, rows) ==
    [engagements |-> InsertOrIgnore(eng, rows),
     inserted |-> Len(InsertOrIgnore(eng, rows)) - Len(eng)]

store_engagements ==
    /\ pc # "matching"
    /\ \E rows \in SeqsUpTo(EngagementInputs, MaxBatch) :
        LET out == store_engagements_call(engagements, rows)
        IN  /\ Len(out.engagements) <= MaxEngagements
            /\ StoredRows(out.engagements, feed_requests) <= MaxRows
            /\ engagements' = out.engagements
    /\ committed' = engagements'
    /\ settled' = (settled /\ engagements' = engagements)
    /\ NoSweep
    /\ UNCHANGED <<feed_requests, feed_request_posts, posts_table, call, returned>>
    /\ UNCHANGED subscriber_follow_counts

store_feed_retrievals ==
    /\ pc # "matching"
    /\ \E retrievals \in SeqsUpTo(RetrievalInputs, MaxBatch) :
        LET db == store_feed_retrievals_call(
                      Tables(feed_requests, feed_request_posts, posts_table), retrievals)
        IN  /\ StoredRows(engagements, db.requests) <= MaxRows
            /\ feed_requests' = db.requests
            /\ feed_request_posts' = db.posts
            /\ posts_table' = db.directory
            /\ pc' = IF db.raised THEN "store_raised" ELSE "idle"
    /\ settled' = (settled /\ feed_requests' = feed_requests
                           /\ feed_request_posts' = feed_request_posts)
    /\ NoLocals
    /\ UNCHANGED <<engagements, committed, call, returned>>
    /\ UNCHANGED subscriber_follow_counts

rebuild_post_indices_from_payload ==
    /\ pc # "matching"
    /\ feed_request_posts' =
           rebuild_post_indices_from_payload_call(feed_request_posts).posts
    /\ settled' = (settled /\ feed_request_posts' = feed_request_posts)
    /\ NoSweep
    /\ UNCHANGED <<engagements, committed, feed_requests, posts_table, call, returned>>
    /\ UNCHANGED subscriber_follow_counts

\* repair.py _calculate_min_ts raises: ensure_utc(ts) does for one entry.
_calculate_min_ts_raises(requests, entries) ==
    \E id \in entries :
        /\ parse_datetime(requests[id][1].timestamp) # None
        /\ ensure_utc_raises(parse_datetime(requests[id][1].timestamp)[1])

\* repair.py _calculate_min_ts: the earliest parseable timestamp, if any.
_calculate_min_ts(requests, entries) ==
    LET parsed == {id \in entries : parse_datetime(requests[id][1].timestamp) # None}
        instant(id) == timestamp_of(ensure_utc(parse_datetime(requests[id][1].timestamp)[1]))
    IN  IF parsed = {} THEN None
        ELSE Some(instant(CHOOSE id \in parsed : \A o \in parsed : instant(id) <= instant(o)))

NewRepairStats ==
    [empty_requests |-> 0, did_attempts |-> 0, repaired_requests |-> 0,
     still_empty |-> 0, errors |-> 0]

\* The snapshots repair_empty_feed_requests selects: no child post row
\* [AND fr.timestamp >= ?], the parameter being ensure_utc(since).isoformat().
EmptyRequests(requests, posts, since_arg) ==
    {id \in RequestIds :
        /\ requests[id] # None
        /\ posts[id] = <<>>
        /\ \/ since_arg = None
           \/ TextLeq(isoformat(ensure_utc(since_arg[1])), requests[id][1].timestamp)}

\* A re-check that asks for the snapshot row instead of its child rows.
has_request(db, request_id) == db.requests[request_id] # None

\* "SELECT 1 FROM feed_request_posts WHERE request_id = ? LIMIT 1"
has_posts(db, request_id) == db.posts[request_id] # <<>>

\* A loop body that lets the exception of fetch_fn leave the function.
RepairDidPropagating(acc, entries, fetched) ==
    IF _calculate_min_ts_raises(acc.rows, entries)
    THEN [acc EXCEPT !.raised = TRUE]
    ELSE IF _calculate_min_ts(acc.rows, entries) = None
    THEN [acc EXCEPT !.stats.errors = @ + 1]
    ELSE IF _calculate_min_ts(acc.rows, entries)[1] = 0
    THEN [acc EXCEPT !.raised = TRUE]
    ELSE IF fetched.raised
    THEN [acc EXCEPT !.raised = TRUE]
    ELSE IF fetched.retrievals = <<>>
    THEN [acc EXCEPT !.stats.still_empty = @ + Cardinality(entries)]
    ELSE LET db == store_feed_retrievals_call(acc.db, fetched.retrievals)
             repaired == Cardinality({id \in entries : db.posts[id] # <<>>})
         IN  IF db.raised THEN [acc EXCEPT !.raised = TRUE] ELSE
             [db |-> db,
              rows |-> acc.rows,
              stats |-> [acc.stats EXCEPT
                            !.repaired_requests = @ + repaired,
                            !.still_empty = @ + (Cardinality(entries) - repaired)],
              raised |-> FALSE]

\* The body of "for did, entries in grouped.items()". acc is
\* [db |-> the tables, rows |-> feed_requests as the query of the empty
\* snapshots read it (entries keep the ts_raw of that moment), stats |->
\* RepairStats, raised |-> an exception is propagating out of
\* repair_empty_feed_requests]; fetched is what fetch_fn
\* does for this did: [raised |-> BOOLEAN, retrievals |-> the list returned].
\* min_ts - dt.timedelta(seconds=5) raises OverflowError when min_ts is
\* datetime.min.
RepairDid(acc, entries, fetched) ==
    IF _calculate_min_ts_raises(acc.rows, entries)
    THEN [acc EXCEPT !.raised = TRUE]
    ELSE IF _calculate_min_ts(acc.rows, entries) = None
    THEN [acc EXCEPT !.stats.errors = @ + 1]
    ELSE IF _calculate_min_ts(acc.rows, entries)[1] = 0
    THEN [acc EXCEPT !.raised = TRUE]
    ELSE IF fetched.raised
    THEN [acc EXCEPT !.stats.errors = @ + 1]
    ELSE IF fetched.retrievals = <<>>
    THEN [acc EXCEPT !.stats.still_empty = @ + Cardinality(entries)]
    ELSE LET db == store_feed_retrievals_call(acc.db, fetched.retrievals)
             repaired == Cardinality({id \in entries : has_posts(db, id)})
         IN  IF db.raised THEN [acc EXCEPT !.raised = TRUE] ELSE
             [db |-> db,
              rows |-> acc.rows,
              stats |-> [acc.stats EXCEPT
                            !.repaired_requests = @ + repaired,
                            !.still_empty = @ + (Cardinality(entries) - repaired)],
              raised |-> FALSE]

RECURSIVE RepairGroups(_, _, _, _)
RepairGroups(acc, order, grouped, fetch_fn) ==
    IF order = <<>> \/ acc.raised THEN acc
    ELSE RepairGroups(RepairDid(acc, grouped[Head(order)], fetch_fn[Head(order)]),
                      Tail(order), grouped, fetch_fn)

\* What the upstream may answer for one requester.
FetchResults(did) ==
    {[raised |-> TRUE, retrievals |-> <<>>]}
        \cup {[raised |-> FALSE, retrievals |-> rs] :
                rs \in SeqsUpTo({r \in RetrievalInputs : r.requester_did = did}, MaxBatch)}

\* The orders in which a dict built from unordered rows may hold its keys.
Orders(S) == {q \in [1..Cardinality(S) -> S] : \A i, j \in DOMAIN q : i # j => q[i] # q[j]}

\* grouped.keys() for the rows repair_empty_feed_requests selects.
RepairDids(db, since_arg) ==
    {db.requests[id][1].requester_did :
        id \in EmptyRequests(db.requests, db.posts, since_arg)}

\* repair_empty_feed_requests(conn, env, since=since_arg, fetch_fn=fetch_fn)
\* when the dict grouped holds its keys in the given order: the tables
\* afterwards, the RepairStats and whether an exception left the function.
repair_empty_feed_requests_call(db, since_arg, order, fetch_fn) ==
    LET rows == EmptyRequests(db.requests, db.posts, since_arg)
        dids == RepairDids(db, since_arg)
        grouped == [did \in dids |->
                       {id \in rows : db.requests[id][1].requester_did = did}]
    IN  RepairGroups([db |-> db,
                      rows |-> db.requests,
                      stats |-> [NewRepairStats EXCEPT
                                    !.empty_requests = Cardinality(rows),
                                    !.did_attempts = Cardinality(dids)],
                      raised |-> FALSE],
                     order, grouped, fetch_fn)

repair_empty_feed_requests ==
    /\ pc # "matching"
    /\ \E since_arg \in SinceArgs :
        LET db == Tables(feed_requests, feed_request_posts, posts_table)
            dids == RepairDids(db, since_arg)
        IN  \E order \in Orders(dids) :
            \E fetch_fn \in [dids -> UNION {FetchResults(did) : did \in dids}] :
                LET out == repair_empty_feed_requests_call(db, since_arg, order, fetch_fn)
                IN  /\ \A did \in dids : fetch_fn[did] \in FetchResults(did)
                    /\ StoredRows(engagements, out.db.requests) <= MaxRows
                    /\ feed_requests' = out.db.requests
                    /\ feed_request_posts' = out.db.posts
                    /\ posts_table' = out.db.directory
                    /\ pc' = IF out.raised THEN "repair_raised" ELSE "idle"
    /\ settled' = (settled /\ feed_requests' = feed_requests
                           /\ feed_request_posts' = feed_request_posts)
    /\ NoLocals
    /\ UNCHANGED <<engagements, committed, call, returned>>
    /\ UNCHANGED subscriber_follow_counts

\* match_post_positions up to the while loop: the query is executed.
MatchStart ==
    /\ pc # "matching"
    /\ \E since_arg \in SinceArgs, n \in 1..MaxChunk :
        /\ since' = since_arg
        /\ chunk_size' = n
        /\ cursor' = SelectRows(engagements, since_arg)
    /\ pc' = "matching"
    /\ feed_cache' = <<>>
    /\ post_cache' = <<>>
    /\ stats' = NewStats
    /\ pre' = engagements
    /\ UNCHANGED <<posts_table, call, returned, engagements, committed, feed_requests, feed_request_posts, settled>>
    /\ UNCHANGED subscriber_follow_counts

\* One turn of the while loop with a non-empty batch.
MatchChunk ==
    /\ pc = "matching"
    /\ fetchmany(cursor, chunk_size) # <<>>
    /\ LET s == MatchBatch(SweepState(engagements, feed_cache, post_cache, stats),
                           fetchmany(cursor, chunk_size))
       IN  /\ ~s.raised
           /\ engagements' = s.engagements
           /\ feed_cache' = s.feed_cache
           /\ post_cache' = s.post_cache
           /\ stats' = s.stats
    /\ cursor' = AfterFetch(cursor, chunk_size)
    /\ UNCHANGED <<posts_table, call, returned, committed, feed_requests, feed_request_posts, pc, since,
                   chunk_size, pre, settled>>
    /\ UNCHANGED subscriber_follow_counts

\* A row of the batch raises: the exception leaves match_post_positions
\* before conn.commit(), no caller handles it (cli.py) and the connection
\* is dropped with its open transaction.
MatchRaise ==
    /\ pc = "matching"
    /\ fetchmany(cursor, chunk_size) # <<>>
    /\ MatchBatch(SweepState(engagements, feed_cache, post_cache, stats),
                  fetchmany(cursor, chunk_size)).raised
    /\ engagements' = committed
    /\ pc' = "match_raised"
    /\ NoLocals
    /\ UNCHANGED <<posts_table, call, returned, committed, feed_requests, feed_request_posts, settled>>
    /\ UNCHANGED subscriber_follow_counts

\* The empty batch ends the loop; conn.commit(); return stats. The state
\* before this step holds the final rows and the statistics returned.
MatchFinish ==
    /\ pc = "matching"
    /\ fetchmany(cursor, chunk_size) = <<>>
    /\ committed' = engagements
    /\ settled' = (settled \/ since = None)
    /\ NoSweep
    /\ UNCHANGED <<posts_table, call, returned, engagements, feed_requests, feed_request_posts>>
    /\ UNCHANGED subscriber_follow_counts

\* The process is interrupted between two chunks: what was not committed is lost.
Interrupt ==
    /\ pc = "matching"
    /\ engagements' = committed
    /\ NoSweep
    /\ UNCHANGED <<posts_table, call, returned, committed, feed_requests, feed_request_posts, settled>>
    /\ UNCHANGED subscriber_follow_counts

Next ==
    \/ store_engagements
    \/ store_feed_retrievals
    \/ rebuild_post_indices_from_payload
    \/ repair_empty_feed_requests
    \/ MatchStart
    \/ MatchChunk
    \/ MatchRaise
    \/ MatchFinish
    \/ Interrupt

Spec == Init /\ [][Next]_vars

-----------------------------------------------------------------------------
(* Single calls of the snapshot store, with arguments and results.         *)

\* update_posts_metadata(conn, metadata, hydrated_at=hydrated_at): each item
\* with a post_uri updates the row of that post, if there is one.
RECURSIVE update_posts_metadata(_, _, _)
update_posts_metadata(directory, metadata, hydrated_at) ==
    IF metadata = <<>> THEN directory
    ELSE LET item == Head(metadata)
             hydrated_ts == IF hydrated_at # None
                            THEN Some(isoformat(ensure_utc(hydrated_at[1]))) ELSE None
         IN  update_posts_metadata(
                 IF Truthy(item.post_uri) /\ item.post_uri[1] \in DOMAIN directory
                 THEN [directory EXCEPT ![item.post_uri[1]] =
                         [cid |-> IF item.cid # None THEN item.cid ELSE @.cid,
                          author_did |-> item.author_did,
                          author_handle |-> item.author_handle,
                          indexed_at |-> IF item.indexed_at # None
                                         THEN item.indexed_at ELSE @.indexed_at,
                          created_at |-> IF item.created_at # None
                                         THEN item.created_at ELSE @.created_at,
                          last_hydrated_at |-> hydrated_ts,
                          hydration_status |-> item.hydration_status,
                          hydration_error |-> item.hydration_error]]
                 ELSE directory,
                 Tail(metadata), hydrated_at)

\* The metadata hydrate_pending_posts passes for a post it resolved and for
\* a post of a batch that failed.
ResolvedMetadata(uri) ==
    [post_uri |-> Some(uri), cid |-> Some("c1"), author_did |-> Some("a1"),
     author_handle |-> Some("h1"), indexed_at |-> Some(BaseTimestamp),
     created_at |-> Some(BaseTimestamp), hydration_status |-> Some("ok"),
     hydration_error |-> None]

FailedMetadata(uri) ==
    [post_uri |-> Some(uri), cid |-> None, author_did |-> None,
     author_handle |-> None, indexed_at |-> None, created_at |-> None,
     hydration_status |-> Some("error"), hydration_error |-> Some("e1")]

MetadataInputs ==
    {<<>>, <<ResolvedMetadata("p1")>>, <<FailedMetadata("p1")>>}

\* The posts one payload may list in a single call.
MaxCallPosts == 2

CallPositions ==
    {PosAbsent, PosInt(0), PosInt(2), PosInt(7),
     [type |-> "bool", num |-> 1, frac |-> 0],
     [type |-> "float", num |-> 7, frac |-> 0],
     [type |-> "float", num |-> 7, frac |-> 5],
     [type |-> "str", num |-> 15, frac |-> 0],
     [type |-> "str", num |-> 7, frac |-> 5],
     [type |-> "other", num |-> 0, frac |-> 0]}

\* Posts that differ from {"uri": "p1", "position": 7} in one respect.
CallPosts ==
    {PostPayload(Some("p1"), pos) : pos \in CallPositions}
        \cup {PostPayload(uri, PosInt(7)) : uri \in {Some("p2"), Some(""), None}}
        \cup {[PostPayload(uri, PosInt(7)) EXCEPT !.postUri = Some("p1")] :
                uri \in {Some(""), None}}
        \cup {[PostPayload(Some("p1"), PosInt(7)) EXCEPT !.cid = Some("c2")],
              [PostPayload(Some("p1"), PosInt(7)) EXCEPT !.record = Some(Some("c2"))],
              [PostPayload(Some("p1"), PosInt(7)) EXCEPT !.is_dict = FALSE]}

\* One retrieval record as fetch_feed_retrievals returns it.
Retrieval(id, did, timestamp, posts) ==
    [id |-> id, requester_did |-> did, timestamp |-> timestamp, posts |-> posts]

\* Records that differ from the base record in one respect: the payload, the
\* timestamp (unparseable, empty, absent), the requester, the id.
CallRecords ==
    {Retrieval(Some(1), "u1", Some(BaseTimestamp), posts) :
        posts \in SeqsUpTo(CallPosts, MaxCallPosts)}
        \cup {Retrieval(Some(1), "u1", ts, BasePosts) :
                ts \in {Some(JunkString), Some(EmptyString), None}}
        \cup {Retrieval(Some(1), "u2", Some(BaseTimestamp), BasePosts),
              Retrieval(Some(2), "u1", Some(BaseTimestamp), BasePosts),
              Retrieval(Some(2), "u2", Some(BaseTimestamp), BasePosts),
              Retrieval(None, "u1", Some(BaseTimestamp), BasePosts)}

\* The batches of one call: one record, or a record with a timestamp of
\* each kind followed by a record for the other id.
CallBatches ==
    {<<>>} \cup {<<r>> : r \in CallRecords}
        \cup {<<Retrieval(Some(1), "u1", ts, BasePosts),
                Retrieval(Some(2), "u1", Some(BaseTimestamp), BasePosts)>> :
                  ts \in {Some(BaseTimestamp), Some(JunkString), Some(EmptyString), None}}
        \cup {<<Retrieval(Some(1), "u1", Some(BaseTimestamp), BasePosts),
                Retrieval(Some(2), "u1", None, BasePosts)>>}

\* The stores a call may find: what store_feed_retrievals made of one
\* earlier batch, and what a hydration pass made of the posts table since.
SeedBatches ==
    {<<>>,
     <<Retrieval(Some(1), "u1", Some(BaseTimestamp),
                 <<PostPayload(Some("p1"), PosInt(7)), PostPayload(Some("p2"), PosInt(2))>>)>>,
     <<Retrieval(Some(1), "u1", Some(BaseTimestamp), BasePosts)>>,
     <<Retrieval(Some(1), "u1", Some(BaseTimestamp), <<>>)>>,
     <<Retrieval(Some(1), "u1", Some(BaseTimestamp), <<>>),
       Retrieval(Some(2), "u2", Some(BaseTimestamp), <<>>)>>,
     <<Retrieval(Some(1), "u1", Some(JunkString), <<>>),
       Retrieval(Some(2), "u2", Some(BaseTimestamp), <<>>)>>,
     <<Retrieval(Some(1), "u1", Some(BaseTimestamp), <<>>),
       Retrieval(Some(2), "u1", Some(BaseTimestamp), <<>>)>>}

EmptyTables ==
    Tables([id \in RequestIds |-> None], [id \in RequestIds |-> <<>>],
           [u \in {} |-> PostsRow(None, None)])

SeedTables ==
    {[store_feed_retrievals_call(EmptyTables, batch) EXCEPT
         !.directory = update_posts_metadata(@, metadata, Some([local |-> MaxHour, off |-> 0]))] :
        batch \in SeedBatches, metadata \in MetadataInputs}

StoreInit ==
    /\ \E db \in SeedTables :
        /\ feed_requests = db.requests
        /\ feed_request_posts = db.posts
        /\ posts_table = db.directory
    /\ engagements = <<>>
    /\ committed = <<>>
    /\ pc = "idle"
    /\ since = None
    /\ chunk_size = 0
    /\ cursor = <<>>
    /\ feed_cache = <<>>
    /\ post_cache = <<>>
    /\ stats = NewStats
    /\ pre = <<>>
    /\ settled = FALSE
    /\ call = None
    /\ returned = None
    /\ subscriber_follow_counts = <<>>

\* A caller's single call of store_feed_retrievals(conn, retrievals).
CallStoreFeedRetrievals ==
    /\ pc = "idle"
    /\ call = None
    /\ \E retrievals \in CallBatches :
        LET db == store_feed_retrievals_call(
                      Tables(feed_requests, feed_request_posts, posts_table), retrievals)
        IN  /\ feed_requests' = db.requests
            /\ feed_request_posts' = db.posts
            /\ posts_table' = db.directory
            /\ pc' = IF db.raised THEN "store_raised" ELSE "idle"
            /\ call' = Some([op |-> "store_feed_retrievals", retrievals |-> retrievals])
            /\ returned' = Some([raised |-> db.raised, inserted |-> db.inserted])
    /\ UNCHANGED <<engagements, committed, since, chunk_size, cursor, feed_cache,
                   post_cache, stats, pre, settled>>
    /\ UNCHANGED subscriber_follow_counts

\* What the upstream may answer for one requester in a single call: an
\* exception, nothing, or one record for a snapshot id.
CallFetchResults(did) ==
    {[raised |-> TRUE, retrievals |-> <<>>], [raised |-> FALSE, retrievals |-> <<>>]}
        \cup {[raised |-> FALSE, retrievals |-> <<Retrieval(Some(id), did, Some(BaseTimestamp), posts)>>] :
                id \in RequestIds,
                posts \in {BasePosts, <<PostPayload(Some("p1"), PosInt(7)),
                                        PostPayload(Some("p1"), PosInt(2))>>}}

\* A caller's single call of repair_empty_feed_requests.
CallRepairEmptyFeedRequests ==
    /\ pc = "idle"
    /\ call = None
    /\ \E since_arg \in SinceArgs :
        LET db == Tables(feed_requests, feed_request_posts, posts_table)
            dids == RepairDids(db, since_arg)
        IN  \E order \in Orders(dids) :
            \E fetch_fn \in [dids -> UNION {CallFetchResults(did) : did \in dids}] :
                LET out == repair_empty_feed_requests_call(db, since_arg, order, fetch_fn)
                IN  /\ \A did \in dids : fetch_fn[did] \in CallFetchResults(did)
                    /\ feed_requests' = out.db.requests
                    /\ feed_request_posts' = out.db.posts
                    /\ posts_table' = out.db.directory
                    /\ pc' = IF out.raised THEN "repair_raised" ELSE "idle"
                    /\ call' = Some([op |-> "repair_empty_feed_requests",
                                     since |-> since_arg, order |-> order,
                                     fetch_fn |-> fetch_fn])
                    /\ returned' = Some([raised |-> out.raised, stats |-> out.stats])
    /\ UNCHANGED <<engagements, committed, since, chunk_size, cursor, feed_cache,
                   post_cache, stats, pre, settled>>
    /\ UNCHANGED subscriber_follow_counts

StoreNext == CallStoreFeedRetrievals \/ CallRepairEmptyFeedRequests

StoreSpec == StoreInit /\ [][StoreNext]_vars

-----------------------------------------------------------------------------
(* Single calls of rebuild_post_indices_from_payload.                      *)

\* The child rows one snapshot may have when the ranks are rebuilt.
MaxLegacyRows == 2

\* What post_json may hold: nothing, text that is no JSON, JSON that is no
\* object, or an object with any position.
LegacyPayloads ==
    {[kind |-> k, value |-> EmptyPost] : k \in {"empty", "invalid", "nonobject"}}
        \cup {PostJson(PostPayload(None, pos)) : pos \in CallPositions}

\* Rows as store_feed_retrievals writes them and rows written by earlier
\* code, whose post_index is the place in the list or NULL.
LegacyRows ==
    {[post_uri |-> None, post_index |-> index, post_json |-> payload] :
        index \in {None, Some(0), Some(7)}, payload \in LegacyPayloads}

RebuildInit ==
    /\ feed_requests = [id \in RequestIds |->
                           IF id = 1
                           THEN Some([requester_did |-> "u1", timestamp |-> BaseTimestamp])
                           ELSE None]
    /\ \E rows \in SeqsUpTo(LegacyRows, MaxLegacyRows) :
           feed_request_posts = [id \in RequestIds |-> IF id = 1 THEN rows ELSE <<>>]
    /\ posts_table = [u \in {} |-> PostsRow(None, None)]
    /\ engagements = <<>>
    /\ committed = <<>>
    /\ pc = "idle"
    /\ since = None
    /\ chunk_size = 0
    /\ cursor = <<>>
    /\ feed_cache = <<>>
    /\ post_cache = <<>>
    /\ stats = NewStats
    /\ pre = <<>>
    /\ settled = FALSE
    /\ call = None
    /\ returned = None
    /\ subscriber_follow_counts = <<>>

\* A caller's single call of rebuild_post_indices_from_payload(conn).
CallRebuildPostIndices ==
    /\ pc = "idle"
    /\ call = None
    /\ LET out == rebuild_post_indices_from_payload_call(feed_request_posts)
       IN  /\ feed_request_posts' = out.posts
           /\ returned' = Some([raised |-> FALSE, stats |-> out.stats])
    /\ call' = Some([op |-> "rebuild_post_indices_from_payload"])
    /\ UNCHANGED <<engagements, feed_requests, committed, pc, since, chunk_size, cursor,
                   feed_cache, post_cache, stats, pre, settled, posts_table>>
    /\ UNCHANGED subscriber_follow_counts

RebuildNext == CallRebuildPostIndices

RebuildSpec == RebuildInit /\ [][RebuildNext]_vars

-----------------------------------------------------------------------------
(* Single calls of store_engagements.                                      *)

\* The records one call may pass.
MaxCallBatch == 2

\* The engagement every other record is a variation of.
EngagementRecord(timestamp, did, post_uri, kind, is_subscriber, text) ==
    [timestamp |-> timestamp, did_engagement |-> did, post_uri |-> post_uri,
     post_author_handle |-> "", engagement_type |-> kind,
     is_subscriber |-> is_subscriber, engagement_text |-> text]

\* Records with the key of the base engagement and every subscriber flag and
\* text, and records that differ from it in one column of the key.
CallEngagements ==
    {EngagementRecord(BaseTimestamp, "u1", "p1", "like", flag, text) :
        flag \in BOOLEAN, text \in {None, Some("t1"), Some("t2")}}
        \cup {EngagementRecord(IsoString(0, 0), "u1", "p1", "like", TRUE, None),
              EngagementRecord(BaseTimestamp, "u2", "p1", "like", TRUE, None),
              EngagementRecord(BaseTimestamp, "u1", "p2", "like", TRUE, None),
              EngagementRecord(BaseTimestamp, "u1", "p1", "repost", TRUE, None)}

\* The tables a call may find: empty, or holding the base engagement as
\* stored (with either flag), or as a sweep has attributed it.
EngagementSeeds ==
    {<<>>,
     <<EngagementRow(EngagementRecord(BaseTimestamp, "u1", "p1", "like", TRUE, None))>>,
     <<EngagementRow(EngagementRecord(BaseTimestamp, "u1", "p1", "like", FALSE, Some("t1")))>>,
     _update_position(
         <<EngagementRow(EngagementRecord(BaseTimestamp, "u1", "p1", "like", TRUE, Some("t1")))>>,
         1, POSITION_STATUS_MATCHED, Some(1), Some(7), Some(0))}

EngagementsInit ==
    /\ engagements \in EngagementSeeds
    /\ committed = engagements
    /\ LET db == store_feed_retrievals_call(
                     EmptyTables,
                     <<Retrieval(Some(1), "u1", Some(BaseTimestamp), BasePosts)>>)
       IN  /\ feed_requests = db.requests
           /\ feed_request_posts = db.posts
           /\ posts_table = db.directory
    /\ pc = "idle"
    /\ since = None
    /\ chunk_size = 0
    /\ cursor = <<>>
    /\ feed_cache = <<>>
    /\ post_cache = <<>>
    /\ stats = NewStats
    /\ pre = <<>>
    /\ settled = FALSE
    /\ call = None
    /\ returned = None
    /\ subscriber_follow_counts = <<>>

\* A caller's single call of store_engagements(conn, rows).
CallStoreEngagements ==
    /\ pc = "idle"
    /\ call = None
    /\ \E rows \in SeqsUpTo(CallEngagements, MaxCallBatch) :
        LET out == store_engagements_call(engagements, rows)
        IN  /\ engagements' = out.engagements
            /\ call' = Some([op |-> "store_engagements", rows |-> rows])
            /\ returned' = Some([raised |-> FALSE, inserted |-> out.inserted])
    /\ committed' = engagements'
    /\ UNCHANGED <<feed_requests, feed_request_posts, pc, since, chunk_size, cursor,
                   feed_cache, post_cache, stats, pre, settled, posts_table>>
    /\ UNCHANGED subscriber_follow_counts

EngagementsNext == CallStoreEngagements

EngagementsSpec == EngagementsInit /\ [][EngagementsNext]_vars

-----------------------------------------------------------------------------
(* Single calls of normalize_since and of the window computation of a CLI
   run (utils.py, cli.py).                                                 *)

MaxWindowDays == 3

\* "n" for a one-digit number of days, "-n" for a negative one.
NumericString(n) == IF n < 0 THEN <<45, 48 - n>> ELSE <<48 + n>>

Padded(raw) == <<32>> \o raw \o <<32>>

\* The days on which a call is made: the first day of the calendar, the
\* third, and the day after as many days as "00010101" read as a number.
NowDays == {0, 2, DigitsValue(BasicDateString(1)) + 1}

WindowNows == {[local |-> d * DayHours, off |-> o] : d \in NowDays, o \in 0..1}

WindowStrings ==
    {EmptyString, <<32>>, JunkString, Padded(NumericString(2)),
     BasicDateString(1), BasicDateString(2)}
    \cup {IsoString(h, o) : h \in 0..MaxHour, o \in 0..1}
    \cup {NumericString(n) : n \in -1..MaxWindowDays}

WindowValues ==
    {DatetimeValue([local |-> h, off |-> o]) : h \in 0..MaxHour, o \in 0..1}
    \cup {DateValue(day) : day \in 0..1}
    \cup {TimedeltaValue(days) : days \in -1..MaxWindowDays}
    \cup {NumberValue(n) : n \in -1..MaxWindowDays}
    \cup {StringValue(raw) : raw \in WindowStrings}
    \cup {OtherValue}

WindowInit ==
    /\ engagements = <<>>
    /\ committed = engagements
    /\ feed_requests = EmptyTables.requests
    /\ feed_request_posts = EmptyTables.posts
    /\ posts_table = EmptyTables.directory
    /\ pc = "idle"
    /\ since = None
    /\ chunk_size = 0
    /\ cursor = <<>>
    /\ feed_cache = <<>>
    /\ post_cache = <<>>
    /\ stats = NewStats
    /\ pre = <<>>
    /\ settled = FALSE
    /\ call = None
    /\ returned = None
    /\ subscriber_follow_counts = <<>>

\* A caller's single call of normalize_since(value, now=now).
CallNormalizeSince ==
    /\ pc = "idle"
    /\ call = None
    /\ \E value \in WindowValues, now \in WindowNows :
        /\ call' = Some([op |-> "normalize_since", value |-> value, now |-> now])
        /\ returned' = Some(normalize_since(value, now))
    /\ UNCHANGED <<engagements, feed_requests, feed_request_posts, committed, pc,
                   since, chunk_size, cursor, feed_cache, post_cache, stats, pre,
                   settled, posts_table>>
    /\ UNCHANGED subscriber_follow_counts

\* min(since_candidates) of UTC datetimes: the first of the earliest ones.
RECURSIVE MinDatetime(_)
MinDatetime(candidates) ==
    IF Len(candidates) = 1 THEN Head(candidates)
    ELSE LET rest == MinDatetime(Tail(candidates))
         IN  IF rest.local < Head(candidates).local THEN rest ELSE Head(candidates)

\* _compute_position_since(engagement_window_start, now, repair_window_days,
\* position_since_arg=..., position_days_arg=...): the candidates are
\* computed in the order of the code, and the first exception ends the call.
_compute_position_since(engagement_window_start, now, repair_window_days, position_since_arg, position_days_arg) ==
    LET repair == IF repair_window_days > 0
                  THEN <<minus_days(now, repair_window_days)>> ELSE <<>>
        days == IF position_days_arg # None
                THEN <<minus_days(now, position_days_arg[1])>> ELSE <<>>
        given == IF position_since_arg # None /\ position_since_arg[1] # EmptyString
                 THEN <<normalize_since(StringValue(position_since_arg[1]), now)>>
                 ELSE <<>>
        since_candidates == <<Returns(engagement_window_start)>> \o repair \o days \o given
        raised == SelectSeq(since_candidates, LAMBDA c : c.raises # "")
    IN  IF raised # <<>> THEN Head(raised)
        ELSE Returns(MinDatetime([i \in DOMAIN since_candidates |->
                                     since_candidates[i].value[1]]))

\* The engagement window starts a run has computed, and its arguments.
WindowStarts == {[local |-> d * DayHours, off |-> 0] : d \in 0..MaxWindowDays}
RunNows == {[local |-> d * DayHours, off |-> 0] : d \in NowDays}
RepairWindows == 0..1
PositionSinceArgs == {None} \cup {Some(raw) : raw \in WindowStrings}
PositionDaysArgs == {None} \cup {Some(n) : n \in -1..MaxWindowDays}

\* The step of main that computes positions_since_dt, the since of the
\* sweep, from the parsed arguments.
CallComputePositionSince ==
    /\ pc = "idle"
    /\ call = None
    /\ \E engagement_window_start \in WindowStarts, now \in RunNows,
          repair_window_days \in RepairWindows,
          position_since_arg \in PositionSinceArgs,
          position_days_arg \in PositionDaysArgs :
        /\ call' = Some([op |-> "_compute_position_since",
                         engagement_window_start |-> engagement_window_start,
                         now |-> now,
                         repair_window_days |-> repair_window_days,
                         position_since_arg |-> position_since_arg,
                         position_days_arg |-> position_days_arg])
        /\ returned' = Some(_compute_position_since(
                                engagement_window_start, now, repair_window_days,
                                position_since_arg, position_days_arg))
    /\ UNCHANGED <<engagements, feed_requests, feed_request_posts, committed, pc,
                   since, chunk_size, cursor, feed_cache, post_cache, stats, pre,
                   settled, posts_table>>
    /\ UNCHANGED subscriber_follow_counts

WindowNext == CallNormalizeSince \/ CallComputePositionSince

WindowSpec == WindowInit /\ [][WindowNext]_vars

-----------------------------------------------------------------------------
(* Calls of store_subscriber_follow_counts, one after the other at
   increasing snapshot times, and get_latest_follower_counts
   (database.py).                                                          *)

MaxFollowHour == 2
MaxFollowCount == 2

FollowRow(did, count, snapshot_ts) ==
    [did |-> did, following_count |-> count, snapshot_ts |-> snapshot_ts]

\* An INSERT for every count, whether or not the pair has a row.
InsertFollowCount(acc, did, count, snapshot_ts) ==
    [acc EXCEPT !.rows = Append(@, FollowRow(did, count, snapshot_ts)),
                !.inserted = @ + 1]

\* One turn of the loop for a count that is not None: the UPDATE of the row
\* of (did, count) and, when it changed no row, the INSERT.
UpsertFollowCount(acc, did, count, snapshot_ts) ==
    LET rowcount == Cardinality({i \in DOMAIN acc.rows :
                                    /\ acc.rows[i].did = did
                                    /\ acc.rows[i].following_count = count})
    IN  IF rowcount # 0
        THEN [acc EXCEPT
                 !.rows = [i \in DOMAIN @ |->
                              IF @[i].did = did /\ @[i].following_count = count
                              THEN [@[i] EXCEPT !.snapshot_ts = snapshot_ts]
                              ELSE @[i]],
                 !.updated = @ + rowcount]
        ELSE [acc EXCEPT !.rows = Append(@, FollowRow(did, count, snapshot_ts)),
                         !.inserted = @ + 1]

RECURSIVE StoreFollowCounts(_, _, _)
StoreFollowCounts(acc, items, snapshot_ts) ==
    IF items = <<>> THEN acc
    ELSE StoreFollowCounts(
             IF Head(items)[2] = None THEN acc
             ELSE UpsertFollowCount(acc, Head(items)[1], Head(items)[2][1], snapshot_ts),
             Tail(items), snapshot_ts)

\* store_subscriber_follow_counts(conn, follow_counts, snapshot_dt), with
\* follow_counts given as its items in the order of the mapping.
store_subscriber_follow_counts_call(rows, follow_counts, snapshot_dt) ==
    IF follow_counts = <<>>
    THEN [rows |-> rows, inserted |-> 0, updated |-> 0]
    ELSE StoreFollowCounts([rows |-> rows, inserted |-> 0, updated |-> 0],
                           follow_counts, isoformat(ensure_utc(snapshot_dt)))

\* get_latest_follower_counts(conn): for each did with rows, the counts of
\* its rows whose snapshot_ts is MAX(snapshot_ts), a comparison of TEXT; the
\* dictionary keeps one of them.
get_latest_follower_counts(rows) ==
    [did \in {rows[i].did : i \in DOMAIN rows} |->
        {rows[i].following_count : i \in
            {i \in DOMAIN rows :
                /\ rows[i].did = did
                /\ \A j \in DOMAIN rows :
                       rows[j].did = did =>
                           ~TextLess(rows[i].snapshot_ts, rows[j].snapshot_ts)}}]

\* The mappings a call may pass: no, one or two subscribers, each with a
\* count or with None.
FollowCountValues == {None} \cup {Some(n) : n \in 1..MaxFollowCount}
FollowCounts ==
    {<<>>}
    \cup {<<<<did, count>>>> : did \in Subscribers, count \in FollowCountValues}
    \cup {items \in {<<<<d1, c1>>, <<d2, c2>>>> :
                          d1 \in Subscribers, d2 \in Subscribers,
                          c1 \in FollowCountValues, c2 \in FollowCountValues} :
              items[1][1] # items[2][1]}

\* The snapshot times: an instant of the model and an offset.
SnapshotTimes ==
    {[local |-> instant + o, off |-> o] : instant \in 0..MaxFollowHour, o \in 0..1}

FollowInit == WindowInit

\* A call of store_subscriber_follow_counts at a snapshot time after the one
\* of the call before.
CallStoreSubscriberFollowCounts ==
    /\ pc = "idle"
    /\ \E follow_counts \in FollowCounts, snapshot_dt \in SnapshotTimes :
        /\ call # None => timestamp_of(call[1].snapshot_dt) < timestamp_of(snapshot_dt)
        /\ LET out == store_subscriber_follow_counts_call(
                          subscriber_follow_counts, follow_counts, snapshot_dt)
           IN  /\ subscriber_follow_counts' = out.rows
               /\ call' = Some([op |-> "store_subscriber_follow_counts",
                                follow_counts |-> follow_counts,
                                snapshot_dt |-> snapshot_dt])
               /\ returned' = Some([raised |-> FALSE, inserted |-> out.inserted,
                                    updated |-> out.updated])
    /\ UNCHANGED <<engagements, feed_requests, feed_request_posts, committed, pc,
                   since, chunk_size, cursor, feed_cache, post_cache, stats, pre,
                   settled, posts_table>>

FollowNext == CallStoreSubscriberFollowCounts

FollowSpec == FollowInit /\ [][FollowNext]_vars

-----------------------------------------------------------------------------
(* Runs of hydrate_posts, one after the other, with placeholder upserts in
   between (hydration.py, database.py).                                    *)

MaxBatchSize == 2
MaxLimit == 1

\* A row that lacks the author id or the author handle.
LacksAuthor(row) == row.author_did = None \/ row.author_handle = None

\* The WHERE clause of get_post_uris_pending_hydration.
IsPending(row) ==
    /\ row.author_did = None \/ row.author_handle = None
    /\ (IF row.hydration_status = None THEN "pending" ELSE row.hydration_status[1])
           # "not_found"

\* The post_uri values in ascending TEXT order.
UriOrder == <<"p1", "p2">>

UriIndex(uri) == CHOOSE i \in DOMAIN UriOrder : UriOrder[i] = uri

\* ORDER BY COALESCE(last_hydrated_at, '') ASC, post_uri ASC
PendingBefore(directory, u, v) ==
    LET key(w) == IF directory[w].last_hydrated_at = None THEN EmptyString
                  ELSE directory[w].last_hydrated_at[1]
    IN  \/ TextLess(key(u), key(v))
        \/ key(u) = key(v) /\ UriIndex(u) < UriIndex(v)

RECURSIVE OrderPending(_, _)
OrderPending(directory, uris) ==
    IF uris = {} THEN <<>>
    ELSE LET first == CHOOSE u \in uris :
                          \A v \in uris \ {u} : PendingBefore(directory, u, v)
         IN  <<first>> \o OrderPending(directory, uris \ {first})

\* get_post_uris_pending_hydration(conn, limit=limit)
get_post_uris_pending_hydration(directory, limit) ==
    LET rows == OrderPending(directory,
                             {u \in DOMAIN directory : IsPending(directory[u])})
    IN  IF limit = None \/ limit[1] >= Len(rows) THEN rows
        ELSE SubSeq(rows, 1, limit[1])

\* The metadata of a post whose response entry has no author, and of a post
\* the response does not hold.
NoAuthorMetadata(uri) ==
    [ResolvedMetadata(uri) EXCEPT !.author_did = None, !.author_handle = None]

NotFoundMetadata(uri) ==
    [post_uri |-> Some(uri), cid |-> None, author_did |-> None,
     author_handle |-> None, indexed_at |-> None, created_at |-> None,
     hydration_status |-> Some("not_found"), hydration_error |-> None]

\* What fetch does with a post: its entry carries the author, carries none,
\* is missing, or the request that holds the post fails.
FetchKinds == {"found", "no_author", "absent", "raise"}

NewHydrationStats(attempted) ==
    [attempted |-> attempted, hydrated |-> 0, not_found |-> 0, errors |-> 0]

\* One turn of "for start in batch_iter": acc holds the posts table and the
\* statistics.
HydrateChunk(acc, chunk, fetch_fn, now) ==
    IF \E i \in DOMAIN chunk : fetch_fn[chunk[i]] = "raise"
    THEN [directory |-> update_posts_metadata(
                            acc.directory,
                            [i \in DOMAIN chunk |-> FailedMetadata(chunk[i])],
                            Some(now)),
          stats |-> [acc.stats EXCEPT !.errors = @ + Len(chunk)]]
    ELSE LET found == {i \in DOMAIN chunk : fetch_fn[chunk[i]] # "absent"}
         IN  [directory |-> update_posts_metadata(
                                acc.directory,
                                [i \in DOMAIN chunk |->
                                    IF fetch_fn[chunk[i]] = "found"
                                    THEN ResolvedMetadata(chunk[i])
                                    ELSE IF fetch_fn[chunk[i]] = "no_author"
                                    THEN NoAuthorMetadata(chunk[i])
                                    ELSE NotFoundMetadata(chunk[i])],
                                Some(now)),
              stats |-> [acc.stats EXCEPT
                            !.hydrated = @ + Cardinality(found),
                            !.not_found = @ + Len(chunk) - Cardinality(found)]]

RECURSIVE HydrateChunks(_, _, _, _, _)
HydrateChunks(acc, pending, batch_size, fetch_fn, now) ==
    IF pending = <<>> THEN acc
    ELSE LET size == IF batch_size < Len(pending) THEN batch_size ELSE Len(pending)
         IN  HydrateChunks(HydrateChunk(acc, SubSeq(pending, 1, size), fetch_fn, now),
                           SubSeq(pending, size + 1, Len(pending)),
                           batch_size, fetch_fn, now)

\* hydrate_posts(conn, client, batch_size=..., limit=..., fetch_fn=...) run
\* at the time now.
hydrate_posts(directory, batch_size, limit, fetch_fn, now) ==
    LET pending == get_post_uris_pending_hydration(directory, limit)
    IN  HydrateChunks([directory |-> directory,
                       stats |-> NewHydrationStats(Len(pending))],
                      pending, batch_size, fetch_fn, now)

\* The posts table before the first run: the placeholders of one stored
\* snapshot that lists one post or two.
HydrationSeeds ==
    {store_feed_retrievals_call(
         EmptyTables,
         <<Retrieval(Some(1), "u1", Some(BaseTimestamp),
                     [i \in 1..n |-> PostPayload(Some(UriOrder[i]), PosInt(7))])>>)
       : n \in 1..2}

HydrateInit ==
    /\ \E db \in HydrationSeeds :
        /\ feed_requests = db.requests
        /\ feed_request_posts = db.posts
        /\ posts_table = db.directory
    /\ engagements = <<>>
    /\ committed = engagements
    /\ pc = "idle"
    /\ since = None
    /\ chunk_size = 0
    /\ cursor = <<>>
    /\ feed_cache = <<>>
    /\ post_cache = <<>>
    /\ stats = NewStats
    /\ pre = <<>>
    /\ settled = FALSE
    /\ call = None
    /\ returned = None
    /\ subscriber_follow_counts = <<>>

HydrationUnchanged ==
    UNCHANGED <<engagements, feed_requests, feed_request_posts, committed, pc,
                since, chunk_size, cursor, feed_cache, post_cache, stats, pre,
                settled, subscriber_follow_counts>>

\* A run of hydrate_posts.
CallHydratePosts ==
    /\ pc = "idle"
    /\ \E batch_size \in 1..MaxBatchSize,
          limit \in {None} \cup {Some(n) : n \in 1..MaxLimit},
          fetch_fn \in [DOMAIN posts_table -> FetchKinds],
          now \in {[local |-> h, off |-> 0] : h \in 0..MaxHour} :
        LET out == hydrate_posts(posts_table, batch_size, limit, fetch_fn, now)
        IN  /\ posts_table' = out.directory
            /\ call' = Some([op |-> "hydrate_posts", batch_size |-> batch_size,
                             limit |-> limit, fetch_fn |-> fetch_fn, now |-> now])
            /\ returned' = Some([raised |-> FALSE, stats |-> out.stats])
    /\ HydrationUnchanged

\* A snapshot stored between two runs lists a post again: the placeholder
\* upsert of store_feed_retrievals on its row.
CallUpsertPostPlaceholder ==
    /\ pc = "idle"
    /\ \E uri \in DOMAIN posts_table :
        /\ posts_table' = _upsert_post_placeholder(posts_table,
                                                   PostPayload(Some(uri), PosInt(7)))
        /\ call' = Some([op |-> "_upsert_post_placeholder", batch_size |-> 0,
                         limit |-> None,
                         fetch_fn |-> [u \in DOMAIN posts_table |-> "absent"],
                         now |-> [local |-> 0, off |-> 0]])
        /\ returned' = Some([raised |-> FALSE, stats |-> NewHydrationStats(0)])
    /\ HydrationUnchanged

HydrateNext == CallHydratePosts \/ CallUpsertPostPlaceholder

HydrateSpec == HydrateInit /\ [][HydrateNext]_vars

-----------------------------------------------------------------------------
(* Properties of match_post_positions.                                     *)

\* The rows the running sweep has processed: selected by its query and no
\* longer held by the cursor.
SweptRows ==
    IF pc = "matching"
    THEN {rowid \in Selected(pre, since) :
             \A i \in DOMAIN cursor : cursor[i].rowid # rowid}
    ELSE {}

\* The running sweep has fetched its last batch.
SweepComplete == pc = "matching" /\ cursor = <<>>

Parses(raw) == parse_datetime(raw) # None

\* The stored snapshots whose requester is did.
SnapshotsOf(did) ==
    {id \in RequestIds :
        feed_requests[id] # None /\ feed_requests[id][1].requester_did = did}

\* The instant a parseable timestamp string denotes.
InstantOf(raw) == timestamp_of(parse_datetime(raw)[1])

\* The stored snapshots of a requester whose timestamp parses and is not
\* after the instant x.
NotAfter(did, x) ==
    {id \in SnapshotsOf(did) :
        /\ Parses(feed_requests[id][1].timestamp)
        /\ InstantOf(feed_requests[id][1].timestamp) <= x}

\* C1: for every processed engagement whose timestamp parses and whose post
\* identity is present, the snapshot selected (the one the row records) is,
\* among the snapshots of the engagement's actor, one with the greatest
\* timestamp not after the engagement's; a snapshot stamped later is never
\* selected, and when no snapshot is stamped at or before the engagement
\* none with a timestamp is selected. This for every set of stored snapshots.
C1_LastNotAfter ==
    \A rowid \in SweptRows :
        LET r == engagements[rowid]
            eligible == NotAfter(r.did_engagement, InstantOf(r.timestamp))
        IN  (Parses(r.timestamp) /\ r.post_uri # "") =>
                IF eligible = {}
                THEN \/ r.position_feed_request_id = None
                     \/ \E id \in SnapshotsOf(r.did_engagement) :
                            /\ r.position_feed_request_id = Some(id)
                            /\ ~Parses(feed_requests[id][1].timestamp)
                ELSE \E id \in eligible :
                        /\ r.position_feed_request_id = Some(id)
                        /\ \A other \in eligible :
                               InstantOf(feed_requests[other][1].timestamp)
                                   <= InstantOf(feed_requests[id][1].timestamp)

\* The row of a snapshot's post list that gives the post uri a rank.
RankedIn(id, uri) ==
    {i \in DOMAIN feed_request_posts[id] :
        /\ feed_request_posts[id][i].post_uri = Some(uri)
        /\ feed_request_posts[id][i].post_index # None}

\* C2: whenever the sweep gives an engagement the status matched, the row
\* records the rank stored for the engaged post in the selected snapshot's
\* post list, the id of that snapshot, whose requester is the engagement's
\* actor, and as age the engagement's timestamp minus the snapshot's.
C2_MatchedRecords ==
    \A rowid \in SweptRows :
        LET r == engagements[rowid]
        IN  r.position_status = Some(POSITION_STATUS_MATCHED) =>
                \E id \in SnapshotsOf(r.did_engagement) :
                    /\ r.position_feed_request_id = Some(id)
                    /\ Parses(r.timestamp)
                    /\ Parses(feed_requests[id][1].timestamp)
                    /\ r.position_age_seconds =
                           Some(InstantOf(r.timestamp)
                                    - InstantOf(feed_requests[id][1].timestamp))
                    /\ \E i \in RankedIn(id, r.post_uri) :
                           r.post_position = feed_request_posts[id][i].post_index

\* A processed engagement is matched to a snapshot stamped one unit earlier.
C2_Witness ==
    \E rowid \in SweptRows :
        /\ engagements[rowid].position_status = Some(POSITION_STATUS_MATCHED)
        /\ engagements[rowid].position_age_seconds = Some(1)
        /\ engagements[rowid].post_position = Some(7)

\* The statuses decided after a snapshot was selected.
AfterSelection ==
    {POSITION_STATUS_INVALID_FEED_TS, POSITION_STATUS_FEED_IN_FUTURE,
     POSITION_STATUS_EMPTY_FEED, POSITION_STATUS_POST_MISSING}

C5_PostNotInFeed ==
    \A rowid \in SweptRows :
        LET r == engagements[rowid]
        IN  \A id \in SnapshotsOf(r.did_engagement) :
                (/\ Parses(r.timestamp)
                 /\ r.post_uri # ""
                 /\ r.position_feed_request_id = Some(id)
                 /\ Parses(feed_requests[id][1].timestamp)
                 /\ feed_request_posts[id] # <<>>
                 /\ RankedIn(id, r.post_uri) = {})
                => /\ r.position_status = Some(POSITION_STATUS_POST_MISSING)
                   /\ r.post_position = None

\* A processed engagement is flagged post_not_in_feed against a snapshot
\* that lists its post with a null rank.
C5_Witness ==
    \E rowid \in SweptRows :
        /\ engagements[rowid].position_status = Some(POSITION_STATUS_POST_MISSING)
        /\ \E id \in RequestIds :
               /\ engagements[rowid].position_feed_request_id = Some(id)
               /\ \E i \in DOMAIN feed_request_posts[id] :
                      /\ feed_request_posts[id][i].post_uri =
                             Some(engagements[rowid].post_uri)
                      /\ feed_request_posts[id][i].post_index = None

\* C6: a sweep never fails on bad input data: match_post_positions does not
\* raise, every engagement it has processed carries exactly one of the
\* eight status codes, and when a sweep with no since has processed its
\* last row no subscriber engagement is left without a status.
C6_NeverFails ==
    /\ pc # "match_raised"
    /\ \A rowid \in SweptRows :
           \E status \in POSITION_STATUS_LABELS :
               engagements[rowid].position_status = Some(status)
    /\ (SweepComplete /\ since = None) =>
           \A rowid \in 1..Len(engagements) :
               engagements[rowid].is_subscriber =>
                   engagements[rowid].position_status # None

\* C7: once a sweep with no since has completed, and for as long as the
\* snapshot and engagement stores stay as they were, every engagement row
\* keeps the status, rank, snapshot id and age it had at that completion,
\* at every point of every further sweep, with or without since.
C7_Determinism ==
    settled =>
        \A rowid \in 1..Len(engagements) :
            Attribution(engagements[rowid]) = Attribution(committed[rowid])

\* After a completed full sweep a further sweep with a since has processed
\* a row that is not matched.
C7_Witness ==
    /\ settled
    /\ since # None
    /\ \E rowid \in SweptRows :
           engagements[rowid].position_status # Some(POSITION_STATUS_MATCHED)

\* C8: a row whose committed status is matched is never modified by any
\* later step, and is never among the rows a sweep's cursor holds, whatever
\* since is passed and whatever was stored in between.
C8_MatchedFrozen ==
    [][\A rowid \in 1..Len(committed) :
          committed[rowid].position_status = Some(POSITION_STATUS_MATCHED) =>
              /\ engagements'[rowid] = engagements[rowid]
              /\ \A i \in DOMAIN cursor' : cursor'[i].rowid # rowid]_vars

\* A sweep with a since that reaches back to a matched row has processed
\* another row, after the matched snapshot lost the rank of the post.
C8_Witness ==
    /\ since # None
    /\ SweptRows # {}
    /\ \E rowid \in 1..Len(committed) :
           /\ committed[rowid].position_status = Some(POSITION_STATUS_MATCHED)
           /\ TextLeq(isoformat(ensure_utc(since[1])), committed[rowid].timestamp)
           /\ RankedIn(committed[rowid].position_feed_request_id[1],
                       committed[rowid].post_uri) = {}

\* C9: when a sweep has processed its last row, the engagement rows and the
\* statistics are those of processing every selected row in a single
\* batch, whatever the chunk size.
C9_ChunkInvisible ==
    SweepComplete =>
        LET whole == MatchBatch(SweepState(pre, <<>>, <<>>, NewStats),
                                SelectRows(pre, since))
        IN  /\ engagements = whole.engagements
            /\ stats = whole.stats

\* A sweep of two rows has completed in chunks of one.
C9_Witness ==
    /\ SweepComplete
    /\ chunk_size = 1
    /\ Cardinality(SweptRows) = 2
    /\ stats.matched = 1

\* C10: the updates of every chunk the running sweep has completed are
\* committed, so that they survive an interruption between two chunks.
C10_ChunksDurable ==
    \A rowid \in SweptRows : committed[rowid] = engagements[rowid]

-----------------------------------------------------------------------------
(* Properties of the stores.                                               *)

\* C11: a step changes the attribution fields of a stored engagement row
\* only as a step of a sweep, and then only by writing a row that has the
\* subscriber flag and, when since is given and the row's timestamp parses,
\* whose instant is not before since (or by taking back what the sweep had
\* not committed); a row that a step adds has no attribution.
C11_AttributionFrame ==
    [][\A rowid \in 1..Len(engagements') :
          IF rowid > Len(engagements)
          THEN Attribution(engagements'[rowid]) = Attribution(EngagementRow(engagements'[rowid]))
          ELSE Attribution(engagements'[rowid]) # Attribution(engagements[rowid]) =>
                  /\ pc = "matching"
                  /\ \/ engagements' = committed
                     \/ /\ engagements[rowid].is_subscriber
                        /\ \/ since = None
                           \/ ~Parses(engagements[rowid].timestamp)
                           \/ InstantOf(engagements[rowid].timestamp)
                                  >= timestamp_of(ensure_utc(since[1]))]_vars

\* The step is a single call of the operation op.
Calls(op) == call = None /\ call' # None /\ call'[1].op = op

\* The state is the one a single call of the operation op left.
Called(op) == call # None /\ call[1].op = op

\* The child row a listing of a payload gives.
DerivedRow(listing) ==
    [post_uri |-> PostUriOf(AsDict(listing)),
     post_index |-> _coerce_payload_position(AsDict(listing).position),
     post_json |-> PostJson(AsDict(listing))]

\* The child rows a payload gives: one per listing, in the order of the
\* payload, except that of the listings of one identity only the last counts.
DerivedRows(listings) ==
    LET last(i) == \A j \in DOMAIN listings :
                       j > i => \/ DerivedRow(listings[j]).post_uri = None
                                \/ DerivedRow(listings[j]).post_uri
                                       # DerivedRow(listings[i]).post_uri
        marked == [i \in DOMAIN listings |->
                      [row |-> DerivedRow(listings[i]), keep |-> last(i)]]
        kept == SelectSeq(marked, LAMBDA m : m.keep)
    IN  [i \in DOMAIN kept |-> kept[i].row]

\* The positions of a batch whose record has the snapshot id.
RecordsOf(retrievals, id) == {i \in DOMAIN retrievals : retrievals[i].id = Some(id)}

\* The last record of a batch for a snapshot id.
LastRecordOf(retrievals, id) ==
    retrievals[CHOOSE i \in RecordsOf(retrievals, id) :
                   \A j \in RecordsOf(retrievals, id) : j <= i]

\* C12: a call of store_feed_retrievals that returns leaves, for every
\* snapshot id of a record of the batch, the snapshot row and the child rows
\* that the last record with this id gives, whatever rows the id had before,
\* and leaves the rows of every other snapshot id as they were; the same
\* call made once more changes no row of either table.
C12_ReplaceSemantics ==
    [][(Calls("store_feed_retrievals") /\ ~returned'[1].raised) =>
          LET retrievals == call'[1].retrievals
              again == store_feed_retrievals_call(
                           Tables(feed_requests', feed_request_posts', posts_table'),
                           retrievals)
          IN  /\ \A id \in RequestIds :
                    IF RecordsOf(retrievals, id) = {}
                    THEN /\ feed_requests'[id] = feed_requests[id]
                         /\ feed_request_posts'[id] = feed_request_posts[id]
                    ELSE LET retrieval == LastRecordOf(retrievals, id)
                         IN  /\ feed_requests'[id] =
                                    Some([requester_did |-> retrieval.requester_did,
                                          timestamp |-> retrieval.timestamp[1]])
                             /\ feed_request_posts'[id] = DerivedRows(retrieval.posts)
              /\ ~again.raised
              /\ again.requests = feed_requests'
              /\ again.posts = feed_request_posts']_vars

\* A snapshot that had child rows for p1 and p2 was persisted again with a
\* payload that lists p1 alone, at another position: one child row is left.
C12_Witness ==
    /\ Called("store_feed_retrievals")
    /\ ~returned[1].raised
    /\ "p2" \in DOMAIN posts_table
    /\ \E i \in DOMAIN call[1].retrievals :
           /\ call[1].retrievals[i].id = Some(1)
           /\ call[1].retrievals[i].posts = <<PostPayload(Some("p1"), PosInt(2))>>
    /\ feed_request_posts[1] = <<DerivedRow(PostPayload(Some("p1"), PosInt(2)))>>

\* The payload position is an integer, a float with an integer value or the
\* string of one.
IntegerValued(position) ==
    \/ position.type = "int"
    \/ position.type \in {"float", "str"} /\ position.frac = 0

\* The payload position is absent or null, or has no integer value.
NoInteger(position) ==
    \/ position.type \in {"none", "other"}
    \/ position.type \in {"float", "str"} /\ position.frac # 0

\* C13: every child row of a stored snapshot has as rank the position of the
\* listing it was written from when that position is an integer, a float
\* with an integer value or the string of one, and null when the position
\* is absent or has no integer value, wherever the listing stands in the
\* payload; and every listing of the last record persisted for a snapshot
\* id that no later listing of the same identity supersedes has its row.
C13_RankPrecedence ==
    /\ \A id \in RequestIds : \A k \in DOMAIN feed_request_posts[id] :
          LET row == feed_request_posts[id][k]
              position == row.post_json.value.position
          IN  /\ row.post_json.kind = "object"
              /\ IntegerValued(position) => row.post_index = Some(position.num)
              /\ NoInteger(position) => row.post_index = None
    /\ (Called("store_feed_retrievals") /\ ~returned[1].raised) =>
          \A id \in RequestIds : RecordsOf(call[1].retrievals, id) # {} =>
              LET listings == LastRecordOf(call[1].retrievals, id).posts
              IN  \A j \in DOMAIN listings :
                      LET listing == AsDict(listings[j])
                          identity == IF Truthy(listing.uri) THEN listing.uri
                                      ELSE listing.postUri
                      IN  (\A l \in DOMAIN listings :
                              l > j => \/ ~Truthy(AsDict(listings[l]).uri)
                                          /\ AsDict(listings[l]).postUri = None
                                       \/ (IF Truthy(AsDict(listings[l]).uri)
                                           THEN AsDict(listings[l]).uri
                                           ELSE AsDict(listings[l]).postUri) # identity)
                          => \E k \in DOMAIN feed_request_posts[id] :
                                 /\ feed_request_posts[id][k].post_uri = identity
                                 /\ feed_request_posts[id][k].post_json.value = listing

\* A payload listed a post with position 7 first and a post with position
\* "15" second: the ranks stored are 7 and 15, not the places in the list.
C13_Witness ==
    /\ Called("store_feed_retrievals")
    /\ ~returned[1].raised
    /\ Len(feed_request_posts[1]) = 2
    /\ feed_request_posts[1][1].post_index = Some(7)
    /\ feed_request_posts[1][2].post_json.value.position.type = "str"
    /\ feed_request_posts[1][2].post_index = Some(15)

\* C14: in every store that store_feed_retrievals and
\* repair_empty_feed_requests leave, no two child rows of one snapshot id
\* have the same post identity; rows without a post_uri have none.
C14_OneRowPerIdentity ==
    \A id \in RequestIds : \A i, j \in DOMAIN feed_request_posts[id] :
        (i # j /\ feed_request_posts[id][i].post_uri # None)
            => feed_request_posts[id][i].post_uri # feed_request_posts[id][j].post_uri

\* A payload that lists p1 twice, at positions 7 and 2, was persisted: the
\* snapshot has a single row for p1.
C14_Witness ==
    /\ call # None
    /\ ~returned[1].raised
    /\ \E id \in RequestIds :
           /\ Len(feed_request_posts[id]) = 1
           /\ feed_request_posts[id][1].post_uri = Some("p1")
           /\ feed_request_posts[id][1].post_index = Some(2)
           /\ \/ /\ call[1].op = "store_feed_retrievals"
                 /\ \E i \in DOMAIN call[1].retrievals :
                        /\ call[1].retrievals[i].id = Some(id)
                        /\ Len(call[1].retrievals[i].posts) = 2
              \/ /\ call[1].op = "repair_empty_feed_requests"
                 /\ \E did \in DOMAIN call[1].fetch_fn :
                        \E i \in DOMAIN call[1].fetch_fn[did].retrievals :
                            /\ call[1].fetch_fn[did].retrievals[i].id = Some(id)
                            /\ Len(call[1].fetch_fn[did].retrievals[i].posts) = 2

\* C15: a call of store_feed_retrievals returns whatever the timestamps of
\* its records are (well-formed, unparseable, empty or absent), and has then
\* stored the snapshot row of every record that has an id.
C15_PersistsWithoutTimestamp ==
    Called("store_feed_retrievals") =>
        /\ ~returned[1].raised
        /\ \A i \in DOMAIN call[1].retrievals :
               call[1].retrievals[i].id # None
                   => feed_requests[call[1].retrievals[i].id[1]] # None

\* The identities a batch makes store_feed_retrievals meet: those of the
\* listings of its records that have an id.
IdentitiesMet(retrievals) ==
    {uri \in PostUris :
        \E i \in DOMAIN retrievals :
            /\ retrievals[i].id # None
            /\ \E j \in DOMAIN retrievals[i].posts :
                   LET listing == AsDict(retrievals[i].posts[j])
                   IN  (IF listing.uri \notin {None, Some("")}
                        THEN listing.uri ELSE listing.postUri) = Some(uri)}

\* C19: a call of store_feed_retrievals leaves in every row the posts table
\* already had the author id and handle, the indexed, created and hydrated
\* timestamps and the hydration error as they were, and also the hydration
\* status and the cid where these were not null; when it returns, every
\* identity it met that had no row has a row with hydration status pending
\* and no other data than the cid, and no other row was added.
C19_PlaceholderUpsert ==
    [][Calls("store_feed_retrievals") =>
          /\ \A uri \in DOMAIN posts_table :
                /\ uri \in DOMAIN posts_table'
                /\ posts_table'[uri].author_did = posts_table[uri].author_did
                /\ posts_table'[uri].author_handle = posts_table[uri].author_handle
                /\ posts_table'[uri].indexed_at = posts_table[uri].indexed_at
                /\ posts_table'[uri].created_at = posts_table[uri].created_at
                /\ posts_table'[uri].last_hydrated_at = posts_table[uri].last_hydrated_at
                /\ posts_table'[uri].hydration_error = posts_table[uri].hydration_error
                /\ posts_table[uri].hydration_status # None
                       => posts_table'[uri].hydration_status = posts_table[uri].hydration_status
                /\ posts_table[uri].cid # None
                       => posts_table'[uri].cid = posts_table[uri].cid
          /\ ~returned'[1].raised =>
                /\ DOMAIN posts_table'
                       = DOMAIN posts_table \cup IdentitiesMet(call'[1].retrievals)
                /\ \A uri \in DOMAIN posts_table' \ DOMAIN posts_table :
                       [posts_table'[uri] EXCEPT !.cid = None]
                           = PostsRow(None, Some("pending"))]_vars

\* The posts table held a hydrated row for p1 and none for p2; a payload
\* listing p1 with another cid and p2 was persisted: the row of p1 is as it
\* was and p2 has a placeholder.
C19_Witness ==
    /\ Called("store_feed_retrievals")
    /\ ~returned[1].raised
    /\ \E i \in DOMAIN call[1].retrievals :
           /\ call[1].retrievals[i].id # None
           /\ \E j \in DOMAIN call[1].retrievals[i].posts :
                  /\ call[1].retrievals[i].posts[j].uri = Some("p1")
                  /\ call[1].retrievals[i].posts[j].cid = Some("c2")
    /\ DOMAIN posts_table = {"p1", "p2"}
    /\ posts_table["p1"].hydration_status = Some("ok")
    /\ posts_table["p1"].cid = Some("c1")
    /\ posts_table["p2"] = PostsRow(None, Some("pending"))
    /\ Len(feed_request_posts[1]) = 2
    /\ feed_request_posts[1][1].post_json.value.cid = Some("c2")

\* The snapshots without child rows that a repair pass with the given since
\* selects, and those of one requester among them.
EmptySnapshots(since_arg) ==
    {id \in RequestIds :
        /\ feed_requests[id] # None
        /\ feed_request_posts[id] = <<>>
        /\ \/ since_arg = None
           \/ TextLeq(isoformat(ensure_utc(since_arg[1])), feed_requests[id][1].timestamp)}

EmptySnapshotsOf(since_arg, did) ==
    {id \in EmptySnapshots(since_arg) : feed_requests[id][1].requester_did = did}

\* No snapshot of the group has a timestamp that parses: nothing is fetched.
NothingToFetch(since_arg, did) ==
    \A id \in EmptySnapshotsOf(since_arg, did) : ~Parses(feed_requests[id][1].timestamp)

\* The sum of f over a finite set.
RECURSIVE SumOver(_, _)
SumOver(S, f) ==
    IF S = {} THEN 0
    ELSE LET x == CHOOSE y \in S : TRUE IN f[x] + SumOver(S \ {x}, f)

\* C20: a call of repair_empty_feed_requests in which fetch_fn raises for a
\* requester returns its statistics and no exception leaves it; errors
\* counts one for each requester whose fetch raised (or for whom nothing
\* could be fetched); every snapshot of every other requester's group is
\* counted as repaired or as still empty; and every record another
\* requester's fetch returned is stored, the record of the requester served
\* last standing where two were for the same snapshot id.
C20_FetchFailureIsolated ==
    [][(/\ Calls("repair_empty_feed_requests")
        /\ \E did \in DOMAIN call'[1].fetch_fn : call'[1].fetch_fn[did].raised) =>
          LET since_arg == call'[1].since
              order == call'[1].order
              fetch_fn == call'[1].fetch_fn
              out == returned'[1]
              failed == {did \in DOMAIN fetch_fn :
                            NothingToFetch(since_arg, did) \/ fetch_fn[did].raised}
              served == {i \in DOMAIN order :
                            /\ order[i] \notin failed
                            /\ fetch_fn[order[i]].retrievals # <<>>}
              storing(id) == {i \in served :
                                 RecordsOf(fetch_fn[order[i]].retrievals, id) # {}}
          IN  /\ ~out.raised
              /\ out.stats.empty_requests = Cardinality(EmptySnapshots(since_arg))
              /\ out.stats.did_attempts = Cardinality(DOMAIN fetch_fn)
              /\ out.stats.errors = Cardinality(failed)
              /\ out.stats.repaired_requests + out.stats.still_empty
                     = SumOver(DOMAIN fetch_fn \ failed,
                               [did \in DOMAIN fetch_fn |->
                                   Cardinality(EmptySnapshotsOf(since_arg, did))])
              /\ \A id \in RequestIds :
                    IF storing(id) = {}
                    THEN /\ feed_requests'[id] = feed_requests[id]
                         /\ feed_request_posts'[id] = feed_request_posts[id]
                    ELSE LET i == CHOOSE k \in storing(id) : \A l \in storing(id) : l <= k
                             retrieval == LastRecordOf(fetch_fn[order[i]].retrievals, id)
                         IN  /\ feed_requests'[id] =
                                    Some([requester_did |-> retrieval.requester_did,
                                          timestamp |-> retrieval.timestamp[1]])
                             /\ feed_request_posts'[id] = DerivedRows(retrieval.posts)]_vars

\* The pass met the empty snapshots 1 of u1 and 2 of u2, u1 first; the fetch
\* for u1 raised and the fetch for u2 returned a payload for snapshot 2: one
\* error, one snapshot repaired, snapshot 1 still without child rows.
C20_Witness ==
    /\ Called("repair_empty_feed_requests")
    /\ call[1].order = <<"u1", "u2">>
    /\ call[1].fetch_fn["u1"].raised
    /\ ~call[1].fetch_fn["u2"].raised
    /\ ~returned[1].raised
    /\ returned[1].stats.errors = 1
    /\ returned[1].stats.repaired_requests = 1
    /\ returned[1].stats.did_attempts = 2
    /\ feed_request_posts[1] = <<>>
    /\ feed_request_posts[2] # <<>>

\* The child rows of every snapshot, as <<snapshot id, place>>.
ChildRows == {<<id, k>> : id \in RequestIds, k \in 1..MaxLegacyRows} \cap
             {x \in RequestIds \X (1..MaxLegacyRows) : x[2] <= Len(feed_request_posts[x[1]])}

\* The row's raw payload parses to an object whose position coerces to an
\* integer: an int or bool, an integer-valued float, or the string of one.
HasIntegerPosition(row) ==
    /\ row.post_json.kind = "object"
    /\ \/ IntegerValued(row.post_json.value.position)
       \/ row.post_json.value.position.type = "bool"

\* C16: a call of rebuild_post_indices_from_payload sets the rank of a child
\* row to the integer its payload's position coerces to when the payload
\* parses to an object with such a position and the stored rank differs
\* from it, and leaves the rank of every other row and every other column
\* as they were; the updated count it returns is the number of rows whose
\* rank is no longer what it was.
C16_RebuildOverwrites ==
    [][Calls("rebuild_post_indices_from_payload") =>
          /\ \A id \in RequestIds :
                /\ Len(feed_request_posts'[id]) = Len(feed_request_posts[id])
                /\ \A k \in DOMAIN feed_request_posts[id] :
                      LET row == feed_request_posts[id][k]
                          integer == Some(row.post_json.value.position.num)
                      IN  feed_request_posts'[id][k] =
                              IF HasIntegerPosition(row) /\ row.post_index # integer
                              THEN [row EXCEPT !.post_index = integer]
                              ELSE row
          /\ returned'[1].stats.updated =
                 Cardinality({x \in ChildRows :
                     feed_request_posts'[x[1]][x[2]].post_index
                         # feed_request_posts[x[1]][x[2]].post_index})]_vars

\* As in the repository's test: of two rows one was updated; the row whose
\* payload has position 7 has rank 7 now, and the row whose payload has no
\* position keeps its rank 0.
C16_Witness ==
    /\ Called("rebuild_post_indices_from_payload")
    /\ returned[1].stats.updated = 1
    /\ Len(feed_request_posts[1]) = 2
    /\ feed_request_posts[1][1].post_json.value.position = PosInt(7)
    /\ feed_request_posts[1][1].post_index = Some(7)
    /\ feed_request_posts[1][2].post_json.value.position = PosAbsent
    /\ feed_request_posts[1][2].post_json.kind = "object"
    /\ feed_request_posts[1][2].post_index = Some(0)

\* The child rows before the call whose payload and rank satisfy P.
RowsWhere(P(_)) == {x \in ChildRows : P(feed_request_posts[x[1]][x[2]])}

\* C17: the statistics a call of rebuild_post_indices_from_payload returns
\* put every child row in exactly one class: scanned is the number of rows;
\* parse_errors counts the rows whose payload is no JSON object,
\* missing_position those with no payload or no position in it,
\* invalid_position those whose position coerces to no integer, updated
\* those whose rank differed from the integer of the position; what is left
\* of scanned is the number of rows whose rank was that integer already.
C17_RebuildClassifies ==
    [][Calls("rebuild_post_indices_from_payload") =>
          LET out == returned'[1].stats
              object(row) == row.post_json.kind = "object"
              absent(row) == row.post_json.value.position.type = "none"
              integer(row) == Some(row.post_json.value.position.num)
          IN  /\ out.scanned = Cardinality(ChildRows)
              /\ out.parse_errors = Cardinality(RowsWhere(
                     LAMBDA row : row.post_json.kind \in {"invalid", "nonobject"}))
              /\ out.missing_position = Cardinality(RowsWhere(
                     LAMBDA row : row.post_json.kind = "empty" \/ (object(row) /\ absent(row))))
              /\ out.invalid_position = Cardinality(RowsWhere(
                     LAMBDA row : object(row) /\ ~absent(row) /\ ~HasIntegerPosition(row)))
              /\ out.updated = Cardinality(RowsWhere(
                     LAMBDA row : HasIntegerPosition(row) /\ row.post_index # integer(row)))
              /\ out.scanned - (out.updated + out.missing_position
                                + out.invalid_position + out.parse_errors)
                     = Cardinality(RowsWhere(
                           LAMBDA row : HasIntegerPosition(row)
                                            /\ row.post_index = integer(row)))]_vars

\* Two rows were scanned: one whose payload is no JSON, counted under
\* parse_errors, and one whose rank was its payload's position already,
\* counted under none of the four.
C17_Witness ==
    /\ Called("rebuild_post_indices_from_payload")
    /\ returned[1].stats.scanned = 2
    /\ returned[1].stats.parse_errors = 1
    /\ returned[1].stats.updated = 0
    /\ returned[1].stats.missing_position = 0
    /\ returned[1].stats.invalid_position = 0
    /\ feed_request_posts[1][1].post_json.kind = "invalid"
    /\ HasIntegerPosition(feed_request_posts[1][2])

\* The keys of the records of a batch and of the stored rows.
KeysOf(rows) == {EngagementKey(rows[i]) : i \in DOMAIN rows}

\* C18: a call of store_engagements leaves every stored row as it was, in
\* its subscriber flag, its text and its attribution fields as in every
\* other column, whether or not the batch holds a record with the row's
\* (timestamp, actor, post, kind); afterwards no two rows have the same key;
\* the rows added are one per key of the batch that was not stored, built
\* from the first record with that key; and the count returned is the
\* number of rows added.
C18_DuplicateIsNoOp ==
    [][Calls("store_engagements") =>
          LET rows == call'[1].rows
              fresh == KeysOf(rows) \ KeysOf(engagements)
          IN  /\ Len(engagements') = Len(engagements) + Cardinality(fresh)
              /\ \A rowid \in DOMAIN engagements : engagements'[rowid] = engagements[rowid]
              /\ \A i, j \in DOMAIN engagements' :
                     i # j => EngagementKey(engagements'[i]) # EngagementKey(engagements'[j])
              /\ \A rowid \in DOMAIN engagements' \ DOMAIN engagements :
                     \E i \in DOMAIN rows :
                         /\ EngagementKey(rows[i]) = EngagementKey(engagements'[rowid])
                         /\ \A j \in 1..(i - 1) : EngagementKey(rows[j]) # EngagementKey(rows[i])
                         /\ engagements'[rowid].is_subscriber = rows[i].is_subscriber
                         /\ engagements'[rowid].engagement_text = rows[i].engagement_text
                         /\ engagements'[rowid].position_status = None
              /\ returned'[1].inserted = Cardinality(fresh)]_vars

\* The table held one engagement, flagged as a subscriber's, with text t1
\* and matched at rank 7; a batch with the same key, no subscriber flag and
\* text t2, and with one new engagement, was stored: the first row is as it
\* was and the count returned is 1.
C18_Witness ==
    /\ Called("store_engagements")
    /\ Len(call[1].rows) = 2
    /\ EngagementKey(call[1].rows[1]) = EngagementKey(engagements[1])
    /\ ~call[1].rows[1].is_subscriber
    /\ call[1].rows[1].engagement_text = Some("t2")
    /\ engagements[1].is_subscriber
    /\ engagements[1].engagement_text = Some("t1")
    /\ engagements[1].position_status = Some(POSITION_STATUS_MATCHED)
    /\ engagements[1].post_position = Some(7)
    /\ Len(engagements) = 2
    /\ returned[1].inserted = 1

\* C21: the statistics a call of repair_empty_feed_requests returns count a
\* snapshot that had no child rows as repaired exactly when its requester's
\* fetch returned records and the snapshot has a child row once these are
\* stored, and as still empty when the fetch returned nothing or left it
\* without child rows; for the requesters whose group did not end in an
\* error, repaired and still empty together are the snapshots of their
\* groups, so that repaired_requests + still_empty <= empty_requests, with
\* equality when errors = 0.
C21_RepairedOrStillEmpty ==
    [][Calls("repair_empty_feed_requests") =>
          LET since_arg == call'[1].since
              order == call'[1].order
              fetch_fn == call'[1].fetch_fn
              out == returned'[1]
              failed == {did \in DOMAIN fetch_fn :
                            NothingToFetch(since_arg, did) \/ fetch_fn[did].raised}
              place(did) == CHOOSE i \in DOMAIN order : order[i] = did
              \* the groups up to place i whose fetched records were stored
              \* and name the snapshot id
              stored(id, i) == {j \in 1..i :
                                   /\ order[j] \notin failed
                                   /\ RecordsOf(fetch_fn[order[j]].retrievals, id) # {}}
              listed(id, i) ==
                  LET j == CHOOSE k \in stored(id, i) : \A l \in stored(id, i) : l <= k
                  IN  LastRecordOf(fetch_fn[order[j]].retrievals, id).posts
              checked == {id \in EmptySnapshots(since_arg) :
                             feed_requests[id][1].requester_did \notin failed}
              repaired == {id \in checked :
                              LET did == feed_requests[id][1].requester_did
                              IN  /\ fetch_fn[did].retrievals # <<>>
                                  /\ stored(id, place(did)) # {}
                                  /\ listed(id, place(did)) # <<>>}
          IN  ~out.raised =>
                /\ out.stats.repaired_requests = Cardinality(repaired)
                /\ out.stats.still_empty = Cardinality(checked \ repaired)
                /\ out.stats.repaired_requests + out.stats.still_empty
                       <= out.stats.empty_requests
                /\ out.stats.errors = 0 =>
                       out.stats.repaired_requests + out.stats.still_empty
                           = out.stats.empty_requests]_vars

\* The pass met two snapshots of u1 without child rows; the fetch returned
\* a payload for snapshot 1 alone: one is counted as repaired, the other as
\* still empty, with no error.
C21_Witness ==
    /\ Called("repair_empty_feed_requests")
    /\ ~returned[1].raised
    /\ returned[1].stats.empty_requests = 2
    /\ returned[1].stats.did_attempts = 1
    /\ returned[1].stats.repaired_requests = 1
    /\ returned[1].stats.still_empty = 1
    /\ returned[1].stats.errors = 0
    /\ feed_request_posts[1] # <<>>
    /\ feed_request_posts[2] = <<>>

-----------------------------------------------------------------------------
(* Further properties of match_post_positions.                             *)

\* The rows the running sweep has processed and given the status.
SweptWith(status) ==
    {rowid \in SweptRows : engagements[rowid].position_status = Some(status)}

\* C22: while a sweep runs its statistics describe the rows it has processed
\* so far, and so all the rows it selected once the last one is processed:
\* processed is their number and the sum of the per-status counts, each
\* count is the number of rows given that status, matched is the count of
\* status matched, and the mean age is the sum of the ages recorded on the
\* rows this sweep matched over matched, absent when matched = 0.
C22_SweepStatistics ==
    pc = "matching" =>
        /\ stats.processed = Cardinality(SweptRows)
        /\ SweepComplete => stats.processed = Cardinality(Selected(pre, since))
        /\ stats.processed =
               SumOver(POSITION_STATUS_LABELS, stats.status_counts)
        /\ \A status \in POSITION_STATUS_LABELS :
               stats.status_counts[status] = Cardinality(SweptWith(status))
        /\ stats.matched = stats.status_counts[POSITION_STATUS_MATCHED]
        /\ IF stats.matched = 0
           THEN avg_age_seconds(stats) = None
           ELSE avg_age_seconds(stats) =
                    Some([sum |-> SumOver(SweptWith(POSITION_STATUS_MATCHED),
                                          [rowid \in DOMAIN engagements |->
                                              IF engagements[rowid].position_age_seconds # None
                                              THEN engagements[rowid].position_age_seconds[1]
                                              ELSE 0]),
                          samples |-> stats.matched])

\* A sweep has processed its two rows: one matched with an age of one hour,
\* the other without a target post.
C22_Witness ==
    /\ SweepComplete
    /\ stats.processed = 2
    /\ stats.matched = 1
    /\ stats.age_seconds_sum = 1
    /\ stats.status_counts[POSITION_STATUS_MISSING_URI] = 1

-----------------------------------------------------------------------------
(* Properties of the window computation.                                   *)

\* The UTC datetime of the instant of an aware datetime.
UtcOf(value) == [local |-> value.local - value.off, off |-> 0]

\* The number of days a window value gives when it is a number, a timedelta
\* or a string that float() reads.
WindowNumber(value) ==
    IF value.type \in {"number", "timedelta"} THEN Some(value.number)
    ELSE IF value.type = "str" THEN float_of(strip(value.text))
    ELSE None

\* The datetime a window value gives when it is a datetime or a string that
\* fromisoformat reads.
WindowInstant(value) ==
    IF value.type = "datetime" THEN Some(value.datetime)
    ELSE IF value.type = "str" THEN parse_datetime(strip(value.text))
    ELSE None

C30_PositionOptionOverrides ==
    /\ Called("_compute_position_since")
    /\ call[1].repair_window_days = 0
    /\ returned[1].raises = ""
    =>
        LET now == call[1].now
            since_arg == call[1].position_since_arg
            days_arg == call[1].position_days_arg
        IN  /\ since_arg # None /\ since_arg[1] # EmptyString /\ days_arg = None =>
                   returned[1] = normalize_since(StringValue(since_arg[1]), now)
            /\ days_arg # None /\ since_arg = None =>
                   returned[1].value[1].local = now.local - days_arg[1] * DayHours

-----------------------------------------------------------------------------
(* Properties of the follower counts.                                      *)

FollowKeys(rows) == {<<rows[i].did, rows[i].following_count>> : i \in DOMAIN rows}

\* The (did, count) pairs a mapping gives.
GivenPairs(follow_counts) ==
    {<<follow_counts[i][1], follow_counts[i][2][1]>> :
        i \in {i \in DOMAIN follow_counts : follow_counts[i][2] # None}}

\* C24: every call of store_subscriber_follow_counts made after the earlier
\* ones in snapshot time leaves exactly one row for every (did, count) pair
\* stored before or given now; it adds a row for a given pair that had none,
\* moves only the snapshot time of the row of a given pair that had one, to
\* the time of the call, and leaves every other row alone; after it
\* get_latest_follower_counts has the count just given for every did the
\* call gave one for (also a count that did has had before), and what it had
\* before for every other did.
C24_OneRowPerPairLatestWins ==
    [][call' # call /\ call'[1].op = "store_subscriber_follow_counts" =>
          LET before == subscriber_follow_counts
              after == subscriber_follow_counts'
              given == GivenPairs(call'[1].follow_counts)
              at == call'[1].snapshot_dt
          IN  /\ FollowKeys(after) = FollowKeys(before) \cup given
              /\ Len(after) = Cardinality(FollowKeys(after))
              /\ \A i \in DOMAIN before :
                     <<before[i].did, before[i].following_count>> \notin given
                         => \E j \in DOMAIN after : after[j] = before[i]
              /\ \A i \in DOMAIN after :
                     <<after[i].did, after[i].following_count>> \in given
                         => /\ parse_datetime(after[i].snapshot_ts) # None
                            /\ InstantOf(after[i].snapshot_ts) = at.local - at.off
              /\ \A pair \in given :
                     /\ pair[1] \in DOMAIN get_latest_follower_counts(after)
                     /\ get_latest_follower_counts(after)[pair[1]] = {pair[2]}
              /\ \A did \in Subscribers \ {pair[1] : pair \in given} :
                     /\ did \in DOMAIN get_latest_follower_counts(after)
                            <=> did \in DOMAIN get_latest_follower_counts(before)
                     /\ did \in DOMAIN get_latest_follower_counts(after) =>
                            get_latest_follower_counts(after)[did]
                                = get_latest_follower_counts(before)[did]
      ]_vars

\* u1 had the count 1, then 2, and the third call gave 1 again: two rows,
\* the row of 1 carries the time of the third call, and the latest count
\* of u1 is 1.
C24_Witness ==
    /\ Called("store_subscriber_follow_counts")
    /\ call[1].follow_counts = <<<<"u1", Some(1)>>>>
    /\ call[1].snapshot_dt = [local |-> MaxFollowHour + 1, off |-> 1]
    /\ subscriber_follow_counts =
           <<FollowRow("u1", 1, IsoString(MaxFollowHour, 0)),
             FollowRow("u1", 2, IsoString(1, 0))>>
    /\ get_latest_follower_counts(subscriber_follow_counts)["u1"] = {1}

-----------------------------------------------------------------------------
(* Properties of hydrate_posts.                                            *)

\* The posts that lack an author id or handle and are not marked not_found.
DuePosts(directory) ==
    {u \in DOMAIN directory :
        /\ LacksAuthor(directory[u])
        /\ directory[u].hydration_status # Some("not_found")}

PostsWithStatus(directory, uris, status) ==
    {u \in uris : directory[u].hydration_status = Some(status)}

-----------------------------------------------------------------------------
(* Properties of the caches and of the order of the checks.                *)

\* a <= b on the values of FeedCache.timestamps, None being float("-inf").
FloatLeq(a, b) == a = None \/ (b # None /\ a[1] <= b[1])

\* C26: every cache of a running sweep holds exactly the stored snapshots of
\* its requester, once each; its timestamps array has the length of the
\* entries, the i-th value being the instant of the i-th snapshot, or
\* negative infinity when its timestamp does not parse; and the array is
\* non-decreasing, so that the entries are in ascending order of time.
C26_CacheSorted ==
    pc = "matching" =>
        \A did \in DOMAIN feed_cache :
            LET cache == feed_cache[did]
            IN  /\ {cache.entries[i].request_id : i \in DOMAIN cache.entries}
                       = SnapshotsOf(did)
                /\ Len(cache.entries) = Cardinality(SnapshotsOf(did))
                /\ Len(cache.timestamps) = Len(cache.entries)
                /\ \A i \in DOMAIN cache.entries :
                       LET raw == feed_requests[cache.entries[i].request_id][1].timestamp
                       IN  cache.timestamps[i] =
                               IF Parses(raw) THEN Some(InstantOf(raw)) ELSE None
                /\ \A i \in DOMAIN cache.timestamps, j \in DOMAIN cache.timestamps :
                       i < j => FloatLeq(cache.timestamps[i], cache.timestamps[j])

\* C26 without the order: only the contents of the caches and the parallel
\* array.
C26_CacheContents ==
    pc = "matching" =>
        \A did \in DOMAIN feed_cache :
            LET cache == feed_cache[did]
            IN  /\ {cache.entries[i].request_id : i \in DOMAIN cache.entries}
                       = SnapshotsOf(did)
                /\ Len(cache.entries) = Cardinality(SnapshotsOf(did))
                /\ Len(cache.timestamps) = Len(cache.entries)
                /\ \A i \in DOMAIN cache.entries :
                       LET raw == feed_requests[cache.entries[i].request_id][1].timestamp
                       IN  cache.timestamps[i] =
                               IF Parses(raw) THEN Some(InstantOf(raw)) ELSE None

\* The status the checks give a processed row in the order of C27, the
\* snapshot consulted being the one the row records: the first of
\* invalid_engagement_timestamp (the timestamp does not parse),
\* missing_post_uri (no target post), no_feed_request (no snapshot was
\* selected), invalid_feed_timestamp (the snapshot's timestamp does not
\* parse), feed_after_engagement (it is after the engagement's),
\* empty_feed_posts (the snapshot has no post rows), post_not_in_feed (none
\* of its rows gives the post a rank) whose check fails, otherwise matched.
StatusInOrder(r) ==
    IF ~Parses(r.timestamp) THEN POSITION_STATUS_INVALID_TS
    ELSE IF r.post_uri = "" THEN POSITION_STATUS_MISSING_URI
    ELSE IF r.position_feed_request_id = None THEN POSITION_STATUS_NO_FEED
    ELSE LET id == r.position_feed_request_id[1]
         IN  IF ~Parses(feed_requests[id][1].timestamp)
             THEN POSITION_STATUS_INVALID_FEED_TS
             ELSE IF InstantOf(feed_requests[id][1].timestamp) > InstantOf(r.timestamp)
             THEN POSITION_STATUS_FEED_IN_FUTURE
             ELSE IF feed_request_posts[id] = <<>> THEN POSITION_STATUS_EMPTY_FEED
             ELSE IF RankedIn(id, r.post_uri) = {} THEN POSITION_STATUS_POST_MISSING
             ELSE POSITION_STATUS_MATCHED

\* C27: every row a running sweep has processed has the status of the first
\* failing check in the fixed order, and a snapshot is recorded on it only
\* when one of the requester's was selected (never with the first three
\* statuses).
C27_FirstFailingCheck ==
    \A rowid \in SweptRows :
        LET r == engagements[rowid]
        IN  /\ r.position_status = Some(StatusInOrder(r))
            /\ r.position_feed_request_id # None =>
                   /\ Parses(r.timestamp)
                   /\ r.post_uri # ""
                   /\ r.position_feed_request_id[1] \in SnapshotsOf(r.did_engagement)

\* A processed engagement has empty_feed_posts: the snapshot selected for it
\* has no post rows, while an earlier snapshot of the same requester lists
\* the engaged post with a rank.
C27_Witness ==
    \E rowid \in SweptRows :
        LET r == engagements[rowid]
        IN  /\ r.position_status = Some(POSITION_STATUS_EMPTY_FEED)
            /\ r.position_feed_request_id # None
            /\ feed_request_posts[r.position_feed_request_id[1]] = <<>>
            /\ \E other \in SnapshotsOf(r.did_engagement) :
                   /\ other # r.position_feed_request_id[1]
                   /\ Parses(feed_requests[other][1].timestamp)
                   /\ InstantOf(feed_requests[other][1].timestamp)
                          < InstantOf(feed_requests[r.position_feed_request_id[1]][1].timestamp)
                   /\ RankedIn(other, r.post_uri) # {}

Repaired(rowid) ==
    /\ pre[rowid].position_status
           \in {Some(POSITION_STATUS_EMPTY_FEED), Some(POSITION_STATUS_POST_MISSING)}
    /\ pre[rowid].position_feed_request_id # None
    /\ feed_requests[pre[rowid].position_feed_request_id[1]] # None
    /\ RankedIn(pre[rowid].position_feed_request_id[1], pre[rowid].post_uri) # {}

\* The row is matched with a rank the snapshot id stores for its post.
MatchedIn(rowid, id) ==
    /\ engagements[rowid].position_status = Some(POSITION_STATUS_MATCHED)
    /\ engagements[rowid].position_feed_request_id = Some(id)
    /\ \E i \in RankedIn(id, engagements[rowid].post_uri) :
           engagements[rowid].post_position = feed_request_posts[id][i].post_index

\* C29 as stated: a row with empty_feed_posts or post_not_in_feed whose
\* snapshot has since been stored again with the engaged post at a rank is
\* matched with that rank by the next sweep that selects it.
C29_RepairedIsMatched ==
    \A rowid \in SweptRows :
        Repaired(rowid) => MatchedIn(rowid, pre[rowid].position_feed_request_id[1])

\* C29, amended: every row a sweep selects and processes, whatever status an
\* earlier sweep left on it, gets the status the checks give against the
\* store as it is now; and a row with empty_feed_posts or post_not_in_feed
\* whose snapshot has since been stored again with the engaged post at a
\* rank is matched with that rank, provided the sweep selects that same
\* snapshot for it again and the snapshot's timestamp still parses.
C29_RecomputedEachSweep ==
    \A rowid \in SweptRows :
        /\ engagements[rowid].position_status = Some(StatusInOrder(engagements[rowid]))
        /\ /\ Repaired(rowid)
           /\ engagements[rowid].position_feed_request_id
                  = pre[rowid].position_feed_request_id
           /\ Parses(feed_requests[pre[rowid].position_feed_request_id[1]][1].timestamp)
           => MatchedIn(rowid, pre[rowid].position_feed_request_id[1])

\* A row an earlier sweep left with empty_feed_posts is matched by this
\* sweep with rank 7 against the same snapshot.
C29_Witness ==
    \E rowid \in SweptRows :
        /\ pre[rowid].position_status = Some(POSITION_STATUS_EMPTY_FEED)
        /\ Repaired(rowid)
        /\ MatchedIn(rowid, pre[rowid].position_feed_request_id[1])
        /\ engagements[rowid].post_position = Some(7)

====
